---- MODULE Spec2Model ----
(***************************************************************************)
(* A model of the MLIR fusion pass of MIGraphX                              *)
(* (src/src/targets/gpu/fuse_mlir.cpp): the legality predicates, the mode   *)
(* resolution driven by MIGRAPHX_MLIR_USE_SPECIFIC_OPS, the fusion rules    *)
(* and the orchestration of fuse_mlir::apply.                               *)
(*                                                                          *)
(* Strings the code inspects character by character (the environment       *)
(* variable, the device name, the option names) are sequences of one-      *)
(* character strings, so that splitting, prefix tests and substring tests  *)
(* are computed as the code computes them.                                  *)
(***************************************************************************)
EXTENDS Integers, Sequences, FiniteSets, TLC

VARIABLES call, ret, prog, pc, trace, cfg, last, origin, run, first

vars == <<call, ret, prog, pc, trace, cfg, last, origin, run, first>>

(***************************************************************************)
(* Bounds of the model.                                                     *)
(***************************************************************************)
\* the longest MIGRAPHX_MLIR_USE_SPECIFIC_OPS list, in entries
MaxOptions == 2
\* the largest extent of a convolution kernel's spatial dimensions
MaxKernel == 7
\* the largest group attribute of a convolution
MaxGroup == 2
\* the longest chain of reshapes between a GEMM and its consumer
MaxChain == 2

(***************************************************************************)
(* shape::type_t, the element types the predicates tell apart.              *)
(***************************************************************************)
Types ==
  {"bool_type", "half_type", "float_type", "double_type", "uint8_type",
   "int8_type", "int32_type", "int64_type", "fp8e4m3fnuz_type"}

\* enum class mlir_mode, in declaration order (std::max compares this order)
ModeRank ==
  [all |-> 0, fast |-> 1, int8 |-> 2, none |-> 3]

Modes == {"all", "fast", "int8", "none"}

ModeMax(m1, m2) ==
  IF ModeRank[m1] >= ModeRank[m2] THEN m1 ELSE m2

(***************************************************************************)
(* Character strings.                                                       *)
(***************************************************************************)
S_empty == << >>
S_comma == ","
S_fused == <<"f", "u", "s", "e", "d">>
S_dot == <<"d", "o", "t">>
S_convolution == <<"c", "o", "n", "v", "o", "l", "u", "t", "i", "o", "n">>
S_attention == <<"a", "t", "t", "e", "n", "t", "i", "o", "n">>
S_fused_dot == S_fused \o <<"_">> \o S_dot
S_fused_convolution == S_fused \o <<"_">> \o S_convolution
S_gfx11 == <<"g", "f", "x", "1", "1">>

\* contains(std::string_view, const char*): substring search
StrContains(s, sub) ==
  \E i \in 0..(Len(s) - Len(sub)) : SubSeq(s, i + 1, i + Len(sub)) = sub

\* contains(container, value): membership in a vector
VecContains(v, x) ==
  \E i \in 1..Len(v) : v[i] = x

starts_with(s, prefix) ==
  Len(s) >= Len(prefix) /\ SubSeq(s, 1, Len(prefix)) = prefix

RECURSIVE SplitAcc(_, _, _)
SplitAcc(s, delim, item) ==
  IF s = << >>
  THEN IF item = << >> THEN << >> ELSE <<item>>
  ELSE IF Head(s) = delim
       THEN <<item>> \o SplitAcc(Tail(s), delim, << >>)
       ELSE SplitAcc(Tail(s), delim, Append(item, Head(s)))

\* split_string(s, delim): std::getline over s + delim
split_string(s, delim) ==
  SplitAcc(Append(s, delim), delim, << >>)

(***************************************************************************)
(* MIGRAPHX_MLIR_USE_SPECIFIC_OPS: requested and rejected operations.       *)
(***************************************************************************)
is_negated_op(s) ==
  IF s = << >> THEN FALSE ELSE s[1] \in {"!", "~"}

remove_not_symbol(s) ==
  IF is_negated_op(s) THEN Tail(s) ELSE s

\* the predicate of transform_if in get_usage<Action>; enabled is
\* std::is_same<Action, requested>
usage_selects(option, enabled) ==
  IF option = << >> THEN FALSE
  ELSE IF is_negated_op(option) THEN ~enabled
  ELSE enabled

RECURSIVE TransformIf(_, _)
TransformIf(options, enabled) ==
  IF options = << >> THEN << >>
  ELSE (IF usage_selects(Head(options), enabled)
        THEN <<remove_not_symbol(Head(options))>>
        ELSE << >>) \o TransformIf(Tail(options), enabled)

\* get_usage<Action>() over the value of the environment variable
get_usage(env, enabled) ==
  TransformIf(split_string(env, S_comma), enabled)

\* the mutant of specific_op: the `fused` entry is not extended to the
\* fused_convolution and fused_dot classes
specific_op_exact(env, enabled, option, fallback) ==
  LET options == get_usage(env, enabled)
  IN  IF options = << >> THEN fallback
      ELSE VecContains(options, option)

\* specific_op<Action>(option, fallback)
specific_op(env, enabled, option, fallback) ==
  LET options == get_usage(env, enabled)
  IN  IF options = << >> THEN fallback
      ELSE IF StrContains(option, S_fused) /\ VecContains(options, S_fused)
           THEN TRUE
           ELSE VecContains(options, option)

\* the mutant of get_mode: the architecture override is tested before the
\* forced exclusions
get_mode_navi_first(env, device_name, option, m1, m2) ==
  IF starts_with(device_name, S_gfx11) THEN "all"
  ELSE IF specific_op(env, FALSE, option, FALSE) THEN "none"
  ELSE IF specific_op(env, TRUE, option, FALSE) THEN "all"
  ELSE ModeMax(m1, m2)

\* the lambda get_mode of fuse_mlir::apply; is_navi is
\* starts_with(device_name, "gfx11")
get_mode(env, device_name, option, m1, m2) ==
  IF specific_op(env, FALSE, option, FALSE) THEN "none"
  ELSE IF specific_op(env, TRUE, option, FALSE) THEN "all"
  ELSE IF starts_with(device_name, S_gfx11) THEN "all"
  ELSE ModeMax(m1, m2)

(***************************************************************************)
(* Mode-selection predicates for GEMMs and convolutions.  An instruction is *)
(* a record; the predicates read its name, its result shape, the shapes of  *)
(* its inputs and its group attribute.                                      *)
(***************************************************************************)
\* k <= 1024 in is_mlir_dot
KLimit == 1024

Last(s) == s[Len(s)]

\* the mutant of is_mlir_dot: the cutoff its comment names (2048)
is_mlir_dot_k2048(mode, i) ==
  IF mode = "none" THEN FALSE
  ELSE IF i.name # "dot" /\ i.name # "quant_dot" THEN FALSE
  ELSE IF i.type = "fp8e4m3fnuz_type" THEN FALSE
  ELSE IF mode # "fast" THEN TRUE
  ELSE Last(i.a_lens) <= 2 * KLimit

\* the mutant of is_mlir_dot: the 8-bit float result is refused only on the
\* way to the size test of the fast mode
is_mlir_dot_fp8_late(mode, i) ==
  IF mode = "none" THEN FALSE
  ELSE IF i.name # "dot" /\ i.name # "quant_dot" THEN FALSE
  ELSE IF mode # "fast" THEN TRUE
  ELSE IF i.type = "fp8e4m3fnuz_type" THEN FALSE
  ELSE Last(i.a_lens) <= KLimit

\* is_mlir_dot(mode)(ins)
is_mlir_dot(mode, i) ==
  IF mode = "none" THEN FALSE
  ELSE IF i.name # "dot" /\ i.name # "quant_dot" THEN FALSE
  ELSE IF i.type = "fp8e4m3fnuz_type" THEN FALSE
  ELSE IF mode # "fast" THEN TRUE
  ELSE Last(i.a_lens) <= KLimit

\* the mutant of is_mlir_conv: the 8-bit input types are accepted before the
\* guard against grouped convolutions that are not 4D
is_mlir_conv_int8_first(mode, i) ==
  IF mode = "none" THEN FALSE
  ELSE IF i.name # "convolution" /\ i.name # "quant_convolution" THEN FALSE
  ELSE IF i.in_type \in {"fp8e4m3fnuz_type", "int8_type"} THEN TRUE
  ELSE IF Len(i.lens) # 4 /\ i.group > 1 THEN FALSE
  ELSE IF mode = "all" THEN TRUE
  ELSE IF i.group > 1 THEN TRUE
  ELSE IF Len(i.w_lens) # 4 THEN TRUE
  ELSE IF i.w_lens[3] # i.w_lens[4] THEN TRUE
  ELSE (i.w_lens[4] % 3) # 0

\* is_mlir_conv(mode)(ins); w.lens()[2] and [3] are w_lens[3] and [4] here
is_mlir_conv(mode, i) ==
  IF mode = "none" THEN FALSE
  ELSE IF i.name # "convolution" /\ i.name # "quant_convolution" THEN FALSE
  ELSE IF Len(i.lens) # 4 /\ i.group > 1 THEN FALSE
  ELSE IF i.in_type \in {"fp8e4m3fnuz_type", "int8_type"} THEN TRUE
  ELSE IF mode = "all" THEN TRUE
  ELSE IF i.group > 1 THEN TRUE
  ELSE IF Len(i.w_lens) # 4 THEN TRUE
  ELSE IF i.w_lens[3] # i.w_lens[4] THEN TRUE
  ELSE (i.w_lens[4] % 3) # 0

(***************************************************************************)
(* The legality tables.  An instruction is read through its name, its       *)
(* result type and the types of its inputs.                                 *)
(***************************************************************************)
allowed_types ==
  {"float_type", "half_type", "fp8e4m3fnuz_type", "int8_type", "int32_type",
   "bool_type"}

any_type_ops == {"@literal", "@param", "@return"}

no_bool_ops ==
  {"convolution", "quant_convolution", "dot", "quant_dot", "add", "clip",
   "relu", "sub", "mul", "div", "pow", "where", "quantizelinear",
   "dequantizelinear", "abs", "neg"}

fp_only_ops ==
  {"ceil", "erf", "exp", "floor", "log", "recip", "sqrt", "rsqrt", "sigmoid",
   "softmax", "tanh"}

float_types == {"float_type", "half_type", "fp8e4m3fnuz_type"}

\* the mutant of is_pointwise_op_supported_by_mlir: the pass-through
\* operations are accepted before the preliminary type check
is_pointwise_any_type_first(i) ==
  IF i.name \in any_type_ops THEN TRUE
  ELSE IF i.type \notin allowed_types THEN FALSE
  ELSE IF i.type # "bool_type" /\ i.name \in no_bool_ops THEN TRUE
  ELSE IF i.type \in float_types /\ i.name \in fp_only_ops THEN TRUE
  ELSE IF i.type \in float_types /\ i.name = "convert"
       THEN IF i.type = "fp8e4m3fnuz_type" THEN FALSE
            ELSE \A k \in 1..Len(i.in_types) :
                   i.in_types[k] \in {"float_type", "half_type"}
       ELSE FALSE

\* the mutant of is_pointwise_op_supported_by_mlir: the floating-only list is
\* accepted for every result type but bool
is_pointwise_fp_only_as_no_bool(i) ==
  IF i.type \notin allowed_types THEN FALSE
  ELSE IF i.name \in any_type_ops THEN TRUE
  ELSE IF i.type # "bool_type" /\ i.name \in no_bool_ops \cup fp_only_ops THEN TRUE
  ELSE IF i.type \in float_types /\ i.name = "convert"
       THEN IF i.type = "fp8e4m3fnuz_type" THEN FALSE
            ELSE \A k \in 1..Len(i.in_types) :
                   i.in_types[k] \in {"float_type", "half_type"}
       ELSE FALSE

\* the mutant of is_pointwise_op_supported_by_mlir: a convert to the 8-bit
\* float type is not rejected
is_pointwise_convert_to_fp8(i) ==
  IF i.type \notin allowed_types THEN FALSE
  ELSE IF i.name \in any_type_ops THEN TRUE
  ELSE IF i.type # "bool_type" /\ i.name \in no_bool_ops THEN TRUE
  ELSE IF i.type \in float_types /\ i.name \in fp_only_ops THEN TRUE
  ELSE IF i.type \in float_types /\ i.name = "convert"
       THEN \A k \in 1..Len(i.in_types) :
              i.in_types[k] \in {"float_type", "half_type"}
       ELSE FALSE

\* is_pointwise_op_supported_by_mlir(i)
is_pointwise_op_supported_by_mlir(i) ==
  IF i.type \notin allowed_types THEN FALSE
  ELSE IF i.name \in any_type_ops THEN TRUE
  ELSE IF i.type # "bool_type" /\ i.name \in no_bool_ops THEN TRUE
  ELSE IF i.type \in float_types /\ i.name \in fp_only_ops THEN TRUE
  ELSE IF i.type \in float_types /\ i.name = "convert"
       THEN IF i.type = "fp8e4m3fnuz_type" THEN FALSE
            ELSE \A k \in 1..Len(i.in_types) :
                   i.in_types[k] \in {"float_type", "half_type"}
       ELSE FALSE

\* the mutant of is_reduce_op_supported_by_mlir: the allowed types of the
\* pointwise table
is_reduce_pointwise_types(i) ==
  IF i.type \notin allowed_types THEN FALSE
  ELSE i.name \in {"reduce_mean", "reduce_sum"}

\* is_reduce_op_supported_by_mlir(i)
is_reduce_op_supported_by_mlir(i) ==
  IF i.type \notin float_types THEN FALSE
  ELSE i.name \in {"reduce_mean", "reduce_sum"}

\* is_pointwise_op_supported_by_mlir_for_input(i)
is_pointwise_op_supported_by_mlir_for_input(i) ==
  is_pointwise_op_supported_by_mlir(i)

(***************************************************************************)
(* The predicates on their own: a call is drawn from a bounded set of       *)
(* arguments and the predicate is applied to it.                            *)
(***************************************************************************)
KValues == {1, 64, KLimit - 1, KLimit, KLimit + 1, 2 * KLimit, 4 * KLimit}

DotInstructions ==
  [name : {"dot", "quant_dot", "convolution", "add"},
   type : Types,
   a_lens : {<<2, k>> : k \in KValues} \cup {<<1, 2, k>> : k \in KValues}]

DotCalls ==
  [fn : {"is_mlir_dot"}, mode : Modes, ins : DotInstructions]

Ones(n) == [k \in 1..n |-> 1]

\* the weights of a convolution of rank 3, 4 or 5
KernelLens ==
  {<<2, 2, w>> : w \in 1..MaxKernel}
    \cup {<<2, 2, h, w>> : h \in 1..MaxKernel, w \in 1..MaxKernel}
    \cup {<<2, 2, d, w, w>> : d \in 1..MaxKernel, w \in 1..MaxKernel}

\* the result of a convolution has the rank of its weights
ConvInstructions ==
  {[name |-> n, lens |-> Ones(Len(w)), group |-> g, in_type |-> t, w_lens |-> w] :
     n \in {"convolution", "quant_convolution", "dot"},
     g \in 1..MaxGroup,
     t \in {"float_type", "half_type", "int8_type", "fp8e4m3fnuz_type"},
     w \in KernelLens}

ConvCalls ==
  [fn : {"is_mlir_conv"}, mode : Modes, ins : ConvInstructions]

\* an entry of the list: an optional negation sign and a name
OptionNames ==
  {S_empty, S_fused, S_dot, S_convolution, S_attention, S_fused_dot,
   S_fused_convolution}

OptionEntries == [neg : {"", "!", "~"}, name : OptionNames]

EntryText(e) ==
  (IF e.neg = "" THEN << >> ELSE <<e.neg>>) \o e.name

RECURSIVE JoinEntries(_)
JoinEntries(es) ==
  IF es = << >> THEN << >>
  ELSE IF Len(es) = 1 THEN EntryText(es[1])
  ELSE EntryText(es[1]) \o <<S_comma>> \o JoinEntries(Tail(es))

EntryLists ==
  UNION {[1..n -> OptionEntries] : n \in 0..MaxOptions}

S_gfx90a == <<"g", "f", "x", "9", "0", "a">>
S_gfx1100 == S_gfx11 \o <<"0", "0">>
S_gfx1030 == <<"g", "f", "x", "1", "0", "3", "0">>

\* ctx == nullptr gives the empty device name
DeviceNames == {S_empty, S_gfx90a, S_gfx1100, S_gfx1030}

\* the operation classes fuse_mlir::apply resolves a mode for
ModeClasses == {S_fused_convolution, S_fused_dot, S_convolution, S_dot}

ModeCalls ==
  {[fn |-> "get_mode", entries |-> es, env |-> JoinEntries(es),
    device_name |-> d, option |-> o, m1 |-> "fast", m2 |-> "fast"] :
     es \in EntryLists, d \in DeviceNames, o \in ModeClasses}

PointwiseNames ==
  any_type_ops \cup no_bool_ops \cup fp_only_ops
    \cup {"convert", "sin", "reduce_sum", "reduce_mean", "reduce_max",
          "logical_not", "transpose"}

PointwiseCalls ==
  {[fn |-> "is_pointwise_op_supported_by_mlir",
    ins |-> [name |-> n, type |-> t, in_types |-> its]] :
     n \in PointwiseNames, t \in Types,
     its \in {<<x>> : x \in Types}}

ReduceNames ==
  {"reduce_mean", "reduce_sum", "reduce_max", "reduce_min", "reduce_prod", "add"}

ReduceCalls ==
  {[fn |-> "is_reduce_op_supported_by_mlir",
    ins |-> [name |-> n, type |-> t, in_types |-> <<t>>]] :
     n \in ReduceNames, t \in Types}

PredCalls ==
  DotCalls \cup ConvCalls \cup ModeCalls \cup PointwiseCalls \cup ReduceCalls

(***************************************************************************)
(* The graph model consumed by the pass.                                    *)
(*                                                                          *)
(* A shape is [type, lens, layout, subs]; layout is "standard" (packed, in  *)
(* row-major order), "transposed" (packed, permuted), "broadcasted" or      *)
(* "strided" (neither packed nor broadcasted); a tuple shape has the type   *)
(* "tuple_type" and its sub-shapes in subs.                                 *)
(*                                                                          *)
(* An operation descriptor is [name, attr] (attr: the integers of its       *)
(* attributes); gpu::mlir_op also carries its anchor in the field op, and a *)
(* parameter its name in the field parameter.                               *)
(*                                                                          *)
(* A region (module) is a sequence of instructions                          *)
(* [id, op, inputs, shape, mod]; inputs are ids of the same region and mod  *)
(* is the name of the sub-module of the instruction (0: none).              *)
(***************************************************************************)
Shape(t, l, lay) ==
  [type |-> t, lens |-> l, layout |-> lay, subs |-> << >>]

TupleShape(ss) ==
  [type |-> "tuple_type", lens |-> << >>, layout |-> "standard", subs |-> ss]

as_standard(sh) == [sh EXCEPT !.layout = "standard"]

packed(sh) == sh.layout \in {"standard", "transposed"}

broadcasted(sh) == sh.layout = "broadcasted"

Op(n, a) == [name |-> n, attr |-> a]

ParamOp(pname) == [name |-> "@param", attr |-> << >>, parameter |-> pname]

MlirOp(anchor) == [name |-> "gpu::mlir_op", attr |-> << >>, op |-> anchor]

\* param_name(index, prefix): the prefix and the index
param_name(index, prefix) == <<prefix, index>>

Reverse(s) == [k \in 1..Len(s) |-> s[Len(s) + 1 - k]]

SeqRange(s) == {s[k] : k \in 1..Len(s)}

RECURSIVE SelectNonUnit(_)
SelectNonUnit(l) ==
  IF l = << >> THEN << >>
  ELSE (IF Head(l) = 1 THEN << >> ELSE <<Head(l)>>) \o SelectNonUnit(Tail(l))

ReduceOps == {"reduce_sum", "reduce_mean", "reduce_max"}

\* the result shape of an operation on inputs of the given shapes
compute_shape(op, ss) ==
  CASE op.name \in {"dot", "quant_dot"} ->
         Shape(IF op.name = "quant_dot" THEN "int32_type" ELSE ss[1].type,
               SubSeq(ss[1].lens, 1, Len(ss[1].lens) - 1) \o <<Last(ss[2].lens)>>,
               "standard")
    [] op.name \in {"convolution", "quant_convolution"} ->
         Shape(IF op.name = "quant_convolution" THEN "int32_type" ELSE ss[1].type,
               [k \in 1..Len(ss[1].lens) |->
                  IF k = 1 THEN ss[1].lens[1]
                  ELSE IF k = 2 THEN ss[2].lens[1]
                  ELSE ss[1].lens[k] - ss[2].lens[k] + 1],
               "standard")
    [] op.name = "transpose" ->
         Shape(ss[1].type, Reverse(ss[1].lens),
               IF Len(ss[1].lens) > 1 THEN "transposed" ELSE ss[1].layout)
    [] op.name = "reshape" -> Shape(ss[1].type, op.attr, "standard")
    [] op.name = "squeeze" ->
         Shape(ss[1].type, SelectNonUnit(ss[1].lens),
               IF ss[1].layout = "strided" THEN "strided" ELSE "standard")
    [] op.name = "unsqueeze" ->
         Shape(ss[1].type, <<1>> \o ss[1].lens,
               IF ss[1].layout = "strided" THEN "strided" ELSE "standard")
    [] op.name = "flatten" -> Shape(ss[1].type, <<1>> \o ss[1].lens, "standard")
    [] op.name \in {"multibroadcast", "broadcast"} ->
         Shape(ss[1].type, op.attr, "broadcasted")
    [] op.name = "contiguous" -> as_standard(ss[1])
    [] op.name = "slice" ->
         Shape(ss[1].type,
               [k \in 1..Len(ss[1].lens) |->
                  IF k = Len(ss[1].lens) THEN 1 ELSE ss[1].lens[k]],
               "strided")
    [] op.name \in ReduceOps ->
         Shape(ss[1].type,
               [k \in 1..Len(ss[1].lens) |->
                  IF k = Len(ss[1].lens) THEN 1 ELSE ss[1].lens[k]],
               "standard")
    [] op.name = "where" -> as_standard(ss[2])
    [] op.name = "gpu::pre_gemm_softmax_gemm" ->
         Shape(ss[1].type,
               SubSeq(ss[1].lens, 1, Len(ss[1].lens) - 1) \o <<Last(Last(ss).lens)>>,
               "standard")
    [] op.name = "get_tuple_elem" -> ss[1].subs[op.attr[1] + 1]
    [] OTHER -> as_standard(ss[1])

\* the shape of a module's results: one shape, or a tuple of them
ResultShape(ss) ==
  IF Len(ss) = 1 THEN ss[1] ELSE TupleShape(ss)

(***************************************************************************)
(* Regions.                                                                 *)
(***************************************************************************)
MaxOf(S) ==
  IF S = {} THEN 0
  ELSE LET x == CHOOSE y \in S : \A z \in S : z <= y
       IN  x

\* the id the next instruction added to a region gets
NewId(r) == MaxOf({r[k].id : k \in 1..Len(r)}) + 1

\* the instruction of region r with the given id
At(r, id) == r[CHOOSE k \in 1..Len(r) : r[k].id = id]

Has(r, id) == \E k \in 1..Len(r) : r[k].id = id

ShapesOf(r, ids) == [k \in 1..Len(ids) |-> At(r, ids[k]).shape]

RIns(id, op, inputs, sh, mod) ==
  [id |-> id, op |-> op, inputs |-> inputs, shape |-> sh, mod |-> mod]

\* module::add_parameter: a parameter is put at the front of the region
add_parameter(r, pname, sh) ==
  <<RIns(NewId(r), ParamOp(pname), << >>, sh, 0)>> \o r

\* module::add_literal: a literal is put at the front of the region
add_literal(r, lit) ==
  <<RIns(NewId(r), Op("@literal", lit.value), << >>, lit.shape, 0)>> \o r

\* module::add_instruction: the instruction is put at the end
add_instruction(r, op, inputs) ==
  Append(r, RIns(NewId(r), op, inputs, compute_shape(op, ShapesOf(r, inputs)), 0))

\* module::add_return
add_return(r, inputs) ==
  Append(r, RIns(NewId(r), Op("@return", << >>), inputs,
                 ResultShape(ShapesOf(r, inputs)), 0))

\* the parameters of a region, their ids in the order of their names
\* (get_parameter_names, sorted): prefix first, index next
ParamIds(r) ==
  {r[k].id : k \in {j \in 1..Len(r) : r[j].op.name = "@param"}}

PrefixRank == [x |-> 1, y |-> 2, y_bias |-> 3, y_cond |-> 4, y_const |-> 5, z |-> 6]

ParamLess(r, i, j) ==
  LET a == At(r, i).op.parameter
      b == At(r, j).op.parameter
  IN  \/ PrefixRank[a[1]] < PrefixRank[b[1]]
      \/ (a[1] = b[1] /\ a[2] < b[2])

RECURSIVE SortedParams(_, _)
SortedParams(r, S) ==
  IF S = {} THEN << >>
  ELSE LET m == CHOOSE i \in S : \A j \in S \ {i} : ParamLess(r, i, j)
       IN  <<m>> \o SortedParams(r, S \ {m})

\* the ids of the parameters of r in the order of their sorted names
SortedParamIds(r) == SortedParams(r, ParamIds(r))

\* the values a region returns: the inputs of its @return
ReturnIds(r) ==
  IF Len(r) > 0 /\ Last(r).op.name = "@return" THEN Last(r).inputs ELSE << >>

(***************************************************************************)
(* Building a region from another one.  A map takes instructions of the     *)
(* copied region (inner) and of the parent module (outer) to instructions   *)
(* of the region under construction.                                        *)
(***************************************************************************)
Lookup(f, ids) == [k \in 1..Len(ids) |-> f[ids[k]]]

RECURSIVE LiteralsFrom(_, _, _, _)
LiteralsFrom(mm, pm, lens, inner) ==
  IF pm = << >> THEN [r |-> mm, inner |-> inner]
  ELSE IF Head(pm).op.name # "@literal"
       THEN LiteralsFrom(mm, Tail(pm), lens, inner)
       ELSE LET lit == NewId(mm)
                m1 == add_literal(mm, [value |-> Head(pm).op.attr, shape |-> Head(pm).shape])
                mb == NewId(m1)
                m2 == add_instruction(m1, Op("multibroadcast", lens), <<lit>>)
            IN  LiteralsFrom(m2, Tail(pm), lens, (Head(pm).id :> mb) @@ inner)

\* create_param_map_with_literals(mm, pm, shape): every literal of pm is
\* added to mm and broadcast to the lens of shape; the map takes the literal
\* of pm to the broadcast
create_param_map_with_literals(mm, pm, sh) ==
  LiteralsFrom(mm, pm, sh.lens, << >>)

\* insert_params of module::fuse: a parameter x<n> for every input that the
\* map does not hold yet
RECURSIVE insert_params(_, _, _, _)
insert_params(mm, inputs, table, outer) ==
  IF inputs = << >> THEN [r |-> mm, outer |-> outer]
  ELSE IF Head(inputs) \in DOMAIN outer
       THEN insert_params(mm, Tail(inputs), table, outer)
       ELSE LET id == NewId(mm)
                m1 == add_parameter(mm, param_name(Cardinality(ParamIds(mm)), "x"),
                                    as_standard(table[Head(inputs)].shape))
            IN  insert_params(m1, Tail(inputs), table, (Head(inputs) :> id) @@ outer)

\* the parameters of pm, in the order of their names, taken to what the
\* inputs at the same positions are mapped to
ParamsTo(pm, targets) ==
  LET ps == SortedParamIds(pm)
  IN  [i \in {ps[k] : k \in 1..Len(ps)} |->
         targets[CHOOSE k \in 1..Len(ps) : ps[k] = i]]

\* insert_common_op: inputs whose lens differ from the common lens are
\* broadcast to them before the operation is added
RECURSIVE CommonArgs(_, _, _, _)
CommonArgs(mm, inputs, lens, done) ==
  IF inputs = << >> THEN [r |-> mm, inputs |-> done]
  ELSE IF At(mm, Head(inputs)).shape.lens = lens
       THEN CommonArgs(mm, Tail(inputs), lens, Append(done, Head(inputs)))
       ELSE LET id == NewId(mm)
                m1 == add_instruction(mm, Op("multibroadcast", lens), <<Head(inputs)>>)
            IN  CommonArgs(m1, Tail(inputs), lens, Append(done, id))

CommonLens(mm, inputs) ==
  LET big == {k \in 1..Len(inputs) : At(mm, inputs[k]).shape.lens # <<1>>}
  IN  IF big = {} THEN <<1>>
      ELSE At(mm, inputs[CHOOSE k \in big : \A j \in big : k <= j]).shape.lens

insert_common_op(mm, op, inputs) ==
  LET c == CommonArgs(mm, inputs, CommonLens(mm, inputs), << >>)
  IN  add_instruction(c.r, op, c.inputs)

\* module::add_instructions with an inserter: the instructions of pm that the
\* map does not hold are copied to the end of mm, their inputs mapped; the
\* result holds the region, the map and what the @return of pm is mapped to.
\* The inserter is "default" (add_instruction), "reduce" (the lambda of
\* find_mlir_split_reduce, which inlines the sub-module of a pointwise
\* instruction) or "common" (find_pointwise_mlir::insert_pointwise).
RECURSIVE add_instructions(_, _, _, _, _)
add_instructions(mm, pm, inner, inserter, modules) ==
  IF pm = << >> THEN [r |-> mm, inner |-> inner, rets |-> << >>]
  ELSE LET i == Head(pm)
       IN  IF i.op.name = "@return"
           THEN [r |-> mm, inner |-> inner, rets |-> Lookup(inner, i.inputs)]
           ELSE IF i.op.name = "@param" \/ i.id \in DOMAIN inner
           THEN add_instructions(mm, Tail(pm), inner, inserter, modules)
           ELSE IF i.op.name = "@literal"
           THEN add_instructions(
                  add_literal(mm, [value |-> i.op.attr, shape |-> i.shape]),
                  Tail(pm), (i.id :> NewId(mm)) @@ inner, inserter, modules)
           ELSE IF inserter = "reduce" /\ i.op.name = "pointwise"
           THEN LET sub == modules[i.mod]
                    args == Lookup(inner, i.inputs)
                    lits == create_param_map_with_literals(mm, sub, At(mm, args[1]).shape)
                    body == add_instructions(lits.r, sub, ParamsTo(sub, args) @@ lits.inner,
                                             "default", modules)
                IN  add_instructions(body.r, Tail(pm), (i.id :> body.rets[1]) @@ inner,
                                     inserter, modules)
           ELSE IF inserter = "common"
           THEN LET m1 == insert_common_op(mm, i.op, Lookup(inner, i.inputs))
                IN  add_instructions(m1, Tail(pm), (i.id :> Last(m1).id) @@ inner,
                                     inserter, modules)
           ELSE LET m1 == add_instruction(mm, i.op, Lookup(inner, i.inputs))
                IN  add_instructions(m1, Tail(pm), (i.id :> Last(m1).id) @@ inner,
                                     inserter, modules)

\* module::fuse(pm, inputs, &map, inserter): parameters are added for the
\* inputs the map does not hold, the parameters of pm are mapped to what
\* their inputs are mapped to, and the instructions of pm are copied.  The
\* map is [outer, inner]; the result holds the region, the map and the
\* mapped return values.
FuseResult(ps, body) ==
  [r |-> body.r, map |-> [outer |-> ps.outer, inner |-> body.inner],
   rets |-> body.rets]

FuseBody(pm, inputs, map, inserter, modules, ps) ==
  FuseResult(ps, add_instructions(ps.r, pm,
                                  ParamsTo(pm, Lookup(ps.outer, inputs)) @@ map.inner,
                                  inserter, modules))

fuse(mm, pm, inputs, table, map, inserter, modules) ==
  FuseBody(pm, inputs, map, inserter, modules,
           insert_params(mm, inputs, table, map.outer))

EmptyMap == [outer |-> << >>, inner |-> << >>]

\* a module without instructions
EmptyModule == [ins |-> << >>, order |-> << >>, modules |-> << >>]

(***************************************************************************)
(* The parent module: m.ins takes an instruction id to                      *)
(* [op, inputs, shape, mod], m.order is the order of the instructions and   *)
(* m.modules takes a module name to its region.  The consumers of an        *)
(* instruction (outputs()) are the instructions that have it as an input.   *)
(***************************************************************************)
Ids(m) == DOMAIN m.ins

outputs(m, i) == {j \in Ids(m) : i \in SeqRange(m.ins[j].inputs)}

PosOf(m, i) == CHOOSE k \in 1..Len(m.order) : m.order[k] = i

NewInsId(m) == MaxOf(Ids(m)) + 1

NewModule(m) == MaxOf(DOMAIN m.modules) + 1

MIns(op, inputs, sh, mod) ==
  [op |-> op, inputs |-> inputs, shape |-> sh, mod |-> mod]

InputShapes(m, inputs) == [k \in 1..Len(inputs) |-> m.ins[inputs[k]].shape]

\* the shapes of the values a region returns
ReturnShapes(r) == ShapesOf(r, ReturnIds(r))

\* mlir_op::compute_shape: the checks that throw
mlir_op_throws(in_shapes, nmods) ==
  \/ \E k \in 1..Len(in_shapes) : ~(packed(in_shapes[k]) \/ broadcasted(in_shapes[k]))
  \/ nmods # 1
  \/ Len(in_shapes) < 2

\* mlir_op::compute_shape: the one result shape of the sub-module, or the
\* tuple of its result shapes
mlir_op_compute_shape(r) == ResultShape(ReturnShapes(r))

\* the shape of an instruction of the parent module
ins_shape(m, op, inputs, mod) ==
  IF op.name \in {"gpu::mlir_op", "split_fused_reduce"}
  THEN mlir_op_compute_shape(m.modules[mod])
  ELSE compute_shape(op, InputShapes(m, inputs))

InsertAt(seq, k, x) ==
  SubSeq(seq, 1, k - 1) \o <<x>> \o SubSeq(seq, k, Len(seq))

RemoveAt(seq, k) ==
  SubSeq(seq, 1, k - 1) \o SubSeq(seq, k + 1, Len(seq))

\* module::insert_instruction(pos, op, inputs, mods): the new instruction,
\* NewInsId(m), is put before pos
insert_instruction(m, pos, op, inputs, mod) ==
  [m EXCEPT
     !.ins = (NewInsId(m) :> MIns(op, inputs, ins_shape(m, op, inputs, mod), mod)) @@ @,
     !.order = InsertAt(@, PosOf(m, pos), NewInsId(m))]

\* module::insert_instruction(std::next(pos), ...): put after pos
insert_after(m, pos, op, inputs, mod) ==
  [m EXCEPT
     !.ins = (NewInsId(m) :> MIns(op, inputs, ins_shape(m, op, inputs, mod), mod)) @@ @,
     !.order = InsertAt(@, PosOf(m, pos) + 1, NewInsId(m))]

\* module::replace_instruction(ins, op, inputs, mods): the instruction keeps
\* its place and its consumers and gets a new operation and new inputs
replace_with_op(m, i, op, inputs, mod) ==
  [m EXCEPT !.ins[i] = MIns(op, inputs, ins_shape(m, op, inputs, mod), mod)]

\* module::replace_instruction(ins, rep): every consumer of ins reads rep
\* instead
replace_with_ins(m, i, rep) ==
  [m EXCEPT !.ins =
     [j \in Ids(m) |->
        IF j = rep THEN m.ins[j]
        ELSE [m.ins[j] EXCEPT !.inputs =
                [k \in 1..Len(m.ins[j].inputs) |->
                   IF m.ins[j].inputs[k] = i THEN rep ELSE m.ins[j].inputs[k]]]]]

\* module::move_instruction(src, dst): src is put before dst
move_instruction(m, src, dst) ==
  LET without == RemoveAt(m.order, PosOf(m, src))
      k == CHOOSE j \in 1..Len(without) : without[j] = dst
  IN  [m EXCEPT !.order = InsertAt(without, k, src)]

\* module::create_module: the region gets the name NewModule(m)
create_module(m, r) ==
  [m EXCEPT !.modules = (NewModule(m) :> r) @@ @]

\* the instructions reachable from i along the consumers, i included
RECURSIVE ReachSet(_, _, _)
ReachSet(m, frontier, seen) ==
  IF frontier = {} THEN seen
  ELSE LET next == (UNION {outputs(m, i) : i \in frontier}) \ seen
       IN  ReachSet(m, next, seen \cup next)

\* reaches(start, end)
reaches(m, start, end) == end \in ReachSet(m, {start}, {start})

\* the instructions the last instruction depends on, itself included
RECURSIVE LiveSet(_, _, _)
LiveSet(m, frontier, seen) ==
  IF frontier = {} THEN seen
  ELSE LET next == (UNION {SeqRange(m.ins[i].inputs) : i \in frontier}) \ seen
       IN  LiveSet(m, next, seen \cup next)

Live(m) ==
  IF m.order = << >> THEN {}
  ELSE LiveSet(m, {Last(m.order)}, {Last(m.order)})

RECURSIVE FilterSeq(_, _)
FilterSeq(seq, S) ==
  IF seq = << >> THEN << >>
  ELSE (IF Head(seq) \in S THEN <<Head(seq)>> ELSE << >>) \o FilterSeq(Tail(seq), S)

\* dead_code_elimination: the instructions the last instruction does not
\* depend on are removed
dead_code_elimination(m) ==
  [m EXCEPT !.ins = [i \in Live(m) |-> m.ins[i]],
            !.order = FilterSeq(m.order, Live(m))]

\* the mutant of mlir_contiguous: every input is passed as it is
mlir_contiguous_none(m, inputs, done) ==
  [m |-> m, inputs |-> done \o inputs]

\* mlir_contiguous: an input that is neither packed nor broadcasted is
\* replaced by a contiguous instruction inserted right after it; the result
\* holds the module and the inputs of the macro-node
RECURSIVE mlir_contiguous(_, _, _)
mlir_contiguous(m, inputs, done) ==
  IF inputs = << >> THEN [m |-> m, inputs |-> done]
  ELSE LET i == Head(inputs)
       IN  IF packed(m.ins[i].shape) \/ broadcasted(m.ins[i].shape)
           THEN mlir_contiguous(m, Tail(inputs), Append(done, i))
           ELSE mlir_contiguous(insert_after(m, i, Op("contiguous", << >>), <<i>>, 0),
                                Tail(inputs), Append(done, NewInsId(m)))

(***************************************************************************)
(* Matchers.                                                                *)
(***************************************************************************)
\* the mutant of reshaper_names: without slice
reshaper_names_without_slice ==
  {"transpose", "multibroadcast", "broadcast", "contiguous", "reshape",
   "squeeze", "flatten", "unsqueeze"}

\* reshaper_names()
reshaper_names ==
  {"slice", "transpose", "multibroadcast", "broadcast", "contiguous",
   "reshape", "squeeze", "flatten", "unsqueeze"}

\* what the legality tables read of an instruction of a region
TableIns(r, i) ==
  [name |-> i.op.name, type |-> i.shape.type,
   in_types |-> [k \in 1..Len(i.inputs) |-> At(r, i.inputs[k]).shape.type]]

\* what is_mlir_dot and is_mlir_conv read of an instruction of the parent
\* module
GemmIns(m, i) ==
  LET x == m.ins[i]
  IN  [name |-> x.op.name, type |-> x.shape.type, lens |-> x.shape.lens,
       a_lens |-> IF x.inputs = << >> THEN <<0>> ELSE m.ins[x.inputs[1]].shape.lens,
       in_type |-> IF x.inputs = << >> THEN x.shape.type ELSE m.ins[x.inputs[1]].shape.type,
       w_lens |-> IF Len(x.inputs) < 2 THEN << >> ELSE m.ins[x.inputs[2]].shape.lens,
       group |-> IF x.op.attr = << >> THEN 1 ELSE x.op.attr[1]]

AllSupported(r) ==
  \A k \in 1..Len(r) : is_pointwise_op_supported_by_mlir(TableIns(r, r[k]))

\* the mutant of mlir_pointwise: the module of the pointwise instruction is
\* not scanned
mlir_pointwise_unscanned(m, i) ==
  m.ins[i].op.name = "pointwise"

\* MIGRAPHX_PRED_MATCHER(mlir_pointwise)
mlir_pointwise(m, i) ==
  IF m.ins[i].op.name # "pointwise" THEN FALSE
  ELSE AllSupported(m.modules[m.ins[i].mod])

\* MIGRAPHX_PRED_MATCHER(mlir_input_pointwise)
mlir_input_pointwise(m, i) ==
  IF m.ins[i].op.name # "pointwise" THEN FALSE
  ELSE \A k \in 1..Len(m.modules[m.ins[i].mod]) :
         is_pointwise_op_supported_by_mlir_for_input(
           TableIns(m.modules[m.ins[i].mod], m.modules[m.ins[i].mod][k]))

is_reduce(i) == i.op.name \in ReduceOps

\* the mutant of mlir_split_reduce: the module of the reduction is not
\* scanned
mlir_split_reduce_unscanned(m, i) ==
  m.ins[i].op.name = "split_fused_reduce"

\* MIGRAPHX_PRED_MATCHER(mlir_split_reduce)
mlir_split_reduce(m, i) ==
  IF m.ins[i].op.name # "split_fused_reduce" THEN FALSE
  ELSE LET r == m.modules[m.ins[i].mod]
       IN  \A k \in 1..Len(r) :
             IF is_reduce(r[k])
             THEN is_reduce_op_supported_by_mlir(TableIns(r, r[k]))
             ELSE IF r[k].op.name = "pointwise"
             THEN AllSupported(m.modules[r[k].mod])
             ELSE r[k].op.name \in reshaper_names
                    \/ r[k].op.name \in {"@param", "@literal", "@return"}

\* match::skip(match::name(names)): from start, through the instructions
\* that have one input and a name of names
RECURSIVE skip(_, _, _)
skip(m, names, start) ==
  IF Len(m.ins[start].inputs) = 1 /\ m.ins[start].op.name \in names
  THEN skip(m, names, m.ins[start].inputs[1])
  ELSE start

\* the first input (match::any_of[match::inputs()]) that P holds of, or 0
FirstInput(m, i, P(_)) ==
  LET hits == {k \in 1..Len(m.ins[i].inputs) : P(m.ins[i].inputs[k])}
  IN  IF hits = {} THEN 0
      ELSE m.ins[i].inputs[CHOOSE k \in hits : \A j \in hits : k <= j]

\* the mutant of get_fusable_input_op_stream: the operations of the chain
\* are recorded highest first
RECURSIVE get_fusable_input_op_stream_prepend(_, _, _)
get_fusable_input_op_stream_prepend(m, upper_input, op_stream) ==
  IF m.ins[upper_input].op.name \in reshaper_names
  THEN LET op == IF m.ins[upper_input].op.name \in {"squeeze", "flatten", "unsqueeze"}
                 THEN Op("reshape", m.ins[upper_input].shape.lens)
                 ELSE m.ins[upper_input].op
       IN  get_fusable_input_op_stream_prepend(m, m.ins[upper_input].inputs[1],
                                               <<op>> \o op_stream)
  ELSE [upper_input |-> upper_input, op_stream |-> op_stream]

\* get_fusable_input_op_stream(lower_input): the instruction above the chain
\* of reshaper instructions and the operations of the chain, lowest first
RECURSIVE get_fusable_input_op_stream(_, _, _)
get_fusable_input_op_stream(m, upper_input, op_stream) ==
  IF m.ins[upper_input].op.name \in reshaper_names
  THEN LET op == IF m.ins[upper_input].op.name \in {"squeeze", "flatten", "unsqueeze"}
                 THEN Op("reshape", m.ins[upper_input].shape.lens)
                 ELSE m.ins[upper_input].op
       IN  get_fusable_input_op_stream(m, m.ins[upper_input].inputs[1],
                                       Append(op_stream, op))
  ELSE [upper_input |-> upper_input, op_stream |-> op_stream]

\* prev_input = mm->add_instruction(op, {prev_input}) for every op of ops
RECURSIVE ApplyOps(_, _, _)
ApplyOps(mm, ops, prev_input) ==
  IF ops = << >> THEN [r |-> mm, prev_input |-> prev_input]
  ELSE ApplyOps(add_instruction(mm, Head(ops), <<prev_input>>), Tail(ops), NewId(mm))

RECURSIVE FuseInputs(_, _, _, _, _, _)
FuseInputs(mm, m, inputs, input_cnt, top_inputs, imm_inputs) ==
  IF inputs = << >>
  THEN [r |-> mm, top_inputs |-> top_inputs, imm_inputs |-> imm_inputs]
  ELSE LET st == get_fusable_input_op_stream(m, Head(inputs), << >>)
           p == NewId(mm)
           m1 == add_parameter(mm, param_name(input_cnt, "y"),
                               as_standard(m.ins[st.upper_input].shape))
           ch == ApplyOps(m1, Reverse(st.op_stream), p)
       IN  FuseInputs(ch.r, m, Tail(inputs), input_cnt + 1,
                      Append(top_inputs, st.upper_input),
                      Append(imm_inputs, ch.prev_input))

\* fuse_input_ops_and_gemm_based_op(mm, gemm_based_op_inputs, gemm_based_op):
\* the region, the anchor added to it and the inputs above the chains
AnchorAfter(f, gemm_based_op) ==
  [r |-> add_instruction(f.r, gemm_based_op, f.imm_inputs),
   anchor |-> NewId(f.r),
   top_inputs |-> f.top_inputs]

fuse_input_ops_and_gemm_based_op(mm, m, gemm_based_op_inputs, gemm_based_op) ==
  AnchorAfter(FuseInputs(mm, m, gemm_based_op_inputs, 0, << >>, << >>), gemm_based_op)

(***************************************************************************)
(* find_mlir_fused_ops: a pointwise instruction after a GEMM or convolution *)
(***************************************************************************)
\* the mutant of FusedReshapes: without squeeze
FusedReshapesNoSqueeze == reshaper_names \ {"slice", "squeeze"}

\* reshaper_names() without slice
FusedReshapes == reshaper_names \ {"slice"}

IsGemmBasedOp(m, modes, j) ==
  \/ is_mlir_dot(modes.dot_mode, GemmIns(m, j))
  \/ is_mlir_conv(modes.conv_mode, GemmIns(m, j))

\* the input of pw bound to "x" by find_mlir_fused_ops::matcher, or 0
FusedX(m, modes, pw) ==
  FirstInput(m, pw, LAMBDA j : IsGemmBasedOp(m, modes, skip(m, FusedReshapes, j)))

\* find_mlir_fused_ops::matcher
FusedMatches(m, modes, pw) ==
  mlir_pointwise(m, pw) /\ FusedX(m, modes, pw) # 0

\* the instructions from x_ins up to the GEMM, x_ins first (reshapes_vec)
RECURSIVE ReshapesVec(_, _, _)
ReshapesVec(m, reshaped_gemm, gemm_based_op) ==
  IF reshaped_gemm = gemm_based_op THEN <<gemm_based_op>>
  ELSE <<reshaped_gemm>> \o ReshapesVec(m, m.ins[reshaped_gemm].inputs[1], gemm_based_op)

RECURSIVE MoveAll(_, _, _)
MoveAll(m, srcs, dst) ==
  IF srcs = << >> THEN m
  ELSE MoveAll(move_instruction(m, Head(srcs), dst), Tail(srcs), dst)

\* std::copy_if(inputs, input != x)
Without(inputs, x) == SelectSeq(inputs, LAMBDA j : j # x)

\* the mutant of FusedDiscards: no match is discarded
FusedDiscardsNothing(m, modes, pw) == FALSE

\* the test of find_mlir_fused_ops::apply that discards the match: an input
\* of the pointwise instruction other than x depends on the GEMM
FusedDiscards(m, modes, pw) ==
  LET x_ins == FusedX(m, modes, pw)
      gemm_based_op == skip(m, FusedReshapes, x_ins)
  IN  \E k \in 1..Len(m.ins[pw].inputs) :
        m.ins[pw].inputs[k] # x_ins /\ reaches(m, gemm_based_op, m.ins[pw].inputs[k])

\* the mutant of FusedMultiOuts: only the consumers of the GEMM are counted,
\* not those of the reshapes between it and the pointwise instruction
FusedMultiOutsGemmOnly(m, reshapes_vec) ==
  Cardinality(outputs(m, Last(reshapes_vec))) > 1

\* gemm_has_multi_outs: the GEMM or a reshape of the chain has several
\* consumers
FusedMultiOuts(m, reshapes_vec) ==
  \E k \in 1..Len(reshapes_vec) : Cardinality(outputs(m, reshapes_vec[k])) > 1

\* the mutant of FusedReturns: the pointwise result first
FusedReturnsSwapped(multi, anchor, rets) ==
  IF multi THEN rets \o <<anchor>> ELSE rets

\* return_vals.insert(return_vals.begin(), anchor_op) when the GEMM has
\* several consumers
FusedReturns(multi, anchor, rets) ==
  IF multi THEN <<anchor>> \o rets ELSE rets

\* the macro-node of a rule: the region mm becomes a sub-module of m and
\* the inputs are made contiguous; the result holds the module and the inputs
Placed(m, reg) ==
  mlir_contiguous(create_module(m, reg.mm), reg.inputs, << >>)

\* whether mlir_op::compute_shape throws on the macro-node
Throws(mc) == mlir_op_throws(InputShapes(mc.m, mc.inputs), 1)

\* find_mlir_fused_ops::apply, the region: the return values and the inputs
FusedRegion(m, pw_ins, x_ins, multi, fi, fu) ==
  [mm |-> add_return(fu.r, FusedReturns(multi, fi.anchor, fu.rets)),
   inputs |-> Without(m.ins[pw_ins].inputs, x_ins) \o fi.top_inputs]

\* the pointwise module is fused after the reshapes
FusedBody(m, pw_ins, x_ins, multi, fi, lits, ch) ==
  FusedRegion(m, pw_ins, x_ins, multi, fi,
              fuse(ch.r, m.modules[m.ins[pw_ins].mod], m.ins[pw_ins].inputs, m.ins,
                   [outer |-> (x_ins :> ch.prev_input), inner |-> lits.inner],
                   "default", m.modules))

\* the reshapes between the GEMM and the pointwise instruction are added
\* after the anchor
FusedChain(m, pw_ins, x_ins, multi, fi, lits) ==
  FusedBody(m, pw_ins, x_ins, multi, fi, lits,
            ApplyOps(lits.r, Reverse(get_fusable_input_op_stream(m, x_ins, << >>).op_stream),
                     fi.anchor))

\* the literals of the pointwise module are added after the anchor
FusedLiterals(m, pw_ins, x_ins, multi, fi) ==
  FusedChain(m, pw_ins, x_ins, multi, fi,
             create_param_map_with_literals(fi.r, m.modules[m.ins[pw_ins].mod],
                                            m.ins[pw_ins].shape))

\* the replacement when the GEMM has several consumers: the macro-node is
\* put before the pointwise instruction, which becomes its element 1; the
\* element 0, NewInsId(mc.m) + 1, replaces the GEMM
FusedReplaceMulti(mc, pw_ins, gemm_based_op, reshapes_vec, op, name) ==
  replace_with_ins(
    MoveAll(
      insert_instruction(
        replace_with_op(insert_instruction(mc.m, pw_ins, op, mc.inputs, name),
                        pw_ins, Op("get_tuple_elem", <<1>>), <<NewInsId(mc.m)>>, 0),
        pw_ins, Op("get_tuple_elem", <<0>>), <<NewInsId(mc.m)>>, 0),
      Reverse(reshapes_vec), pw_ins),
    gemm_based_op, NewInsId(mc.m) + 1)

FusedResult(m, pw_ins, gemm_based_op, reshapes_vec, multi, mc) ==
  [m |-> IF Throws(mc) THEN mc.m
         ELSE IF multi
         THEN FusedReplaceMulti(mc, pw_ins, gemm_based_op, reshapes_vec,
                                MlirOp(m.ins[gemm_based_op].op), NewModule(m))
         ELSE replace_with_op(mc.m, pw_ins, MlirOp(m.ins[gemm_based_op].op),
                              mc.inputs, NewModule(m)),
   throws |-> Throws(mc),
   rule |-> "find_mlir_fused_ops",
   matched |-> pw_ins,
   gemm |-> gemm_based_op,
   chain |-> reshapes_vec,
   multi |-> multi,
   macro |-> IF multi THEN NewInsId(mc.m) ELSE pw_ins,
   module |-> NewModule(m)]

FusedBound(m, pw_ins, x_ins, gemm_based_op, reshapes_vec, multi) ==
  FusedResult(m, pw_ins, gemm_based_op, reshapes_vec, multi,
              Placed(m, FusedLiterals(m, pw_ins, x_ins, multi,
                          fuse_input_ops_and_gemm_based_op(
                            << >>, m, m.ins[gemm_based_op].inputs,
                            m.ins[gemm_based_op].op))))

FusedChainOf(m, pw_ins, x_ins, gemm_based_op, reshapes_vec) ==
  FusedBound(m, pw_ins, x_ins, gemm_based_op, reshapes_vec,
             FusedMultiOuts(m, reshapes_vec))

FusedGemmOf(m, pw_ins, x_ins, gemm_based_op) ==
  FusedChainOf(m, pw_ins, x_ins, gemm_based_op, ReshapesVec(m, x_ins, gemm_based_op))

\* find_mlir_fused_ops::apply on a match that is not discarded: the new
\* parent module, whether mlir_op::compute_shape throws, and what was matched
FusedApplyTo(m, pw_ins, x_ins) ==
  FusedGemmOf(m, pw_ins, x_ins, skip(m, FusedReshapes, x_ins))

FusedApply(m, modes, pw_ins) ==
  FusedApplyTo(m, pw_ins, FusedX(m, modes, pw_ins))

(***************************************************************************)
(* find_mlir_standalone_op: a GEMM or convolution on its own                *)
(***************************************************************************)
StandaloneTypes == {"float_type", "half_type", "int8_type", "fp8e4m3fnuz_type"}

\* find_mlir_standalone_convolution_op and find_mlir_standalone_dot_op, the
\* first of the two whose matcher matches
StandaloneMatches(m, modes, i) ==
  \/ is_mlir_conv(modes.conv_mode, GemmIns(m, i))
  \/ is_mlir_dot(modes.dot_mode, GemmIns(m, i))

\* the mutant of StandaloneDiscards: no match is discarded
StandaloneDiscardsNothing(m, i) == FALSE

\* the test of find_mlir_standalone_op::apply that discards the match
StandaloneDiscards(m, i) ==
  \E k \in 1..Len(m.ins[i].inputs) :
    m.ins[m.ins[i].inputs[k]].shape.type \notin StandaloneTypes

StandaloneRegion(fi) ==
  [mm |-> add_return(fi.r, <<fi.anchor>>), inputs |-> fi.top_inputs]

\* the mutant of StandaloneResult: the sub-module is made and gemm_based_op
\* is left as it is
StandaloneResultAnchorKept(m, gemm_based_op, mc) ==
  [m |-> mc.m,
   throws |-> Throws(mc),
   rule |-> "find_mlir_standalone_op",
   matched |-> gemm_based_op,
   gemm |-> gemm_based_op,
   chain |-> <<gemm_based_op>>,
   multi |-> FALSE,
   macro |-> gemm_based_op,
   module |-> NewModule(m)]

StandaloneResult(m, gemm_based_op, mc) ==
  [m |-> IF Throws(mc) THEN mc.m
         ELSE replace_with_op(mc.m, gemm_based_op, MlirOp(m.ins[gemm_based_op].op),
                              mc.inputs, NewModule(m)),
   throws |-> Throws(mc),
   rule |-> "find_mlir_standalone_op",
   matched |-> gemm_based_op,
   gemm |-> gemm_based_op,
   chain |-> <<gemm_based_op>>,
   multi |-> FALSE,
   macro |-> gemm_based_op,
   module |-> NewModule(m)]

\* find_mlir_standalone_op::apply on a match that is not discarded
StandaloneApply(m, gemm_based_op) ==
  StandaloneResult(m, gemm_based_op,
    Placed(m, StandaloneRegion(
                fuse_input_ops_and_gemm_based_op(<< >>, m, m.ins[gemm_based_op].inputs,
                                                 m.ins[gemm_based_op].op))))

(***************************************************************************)
(* find_mlir_standalone_attention_op and find_mlir_attention_fused_ops      *)
(***************************************************************************)
IsAttention(m, j) == m.ins[j].op.name = "gpu::pre_gemm_softmax_gemm"

\* find_mlir_attention_fused_ops::matcher: the attention input of a
\* supported pointwise instruction, or 0
TrailingAttention(m, pw) ==
  IF mlir_pointwise(m, pw) THEN FirstInput(m, pw, LAMBDA j : IsAttention(m, j)) ELSE 0

\* the id of the instruction add_instruction has just put at the end
Added(r) == Last(r).id

\* the id of the parameter or literal just put at the front
Fronted(r) == Head(r).id

\* the scale: a literal, its broadcast and the product with the first GEMM;
\* the literal gets the id NewId(r) and the broadcast the next one
AttentionScale(r, gemm0, scale) ==
  add_instruction(
    add_instruction(
      add_literal(r, [value |-> scale,
                      shape |-> Shape(At(r, gemm0).shape.type, <<1>>, "standard")]),
      Op("multibroadcast", At(r, gemm0).shape.lens), <<NewId(r)>>),
    Op("mul", << >>), <<gemm0, NewId(r) + 1>>)

\* the first GEMM and its scale; the result holds the region, the scaled
\* GEMM, the lens of the GEMM and the inputs of the macro-node so far
AttentionScaled(m, gemm_softmax_gemm, f0) ==
  [r |-> AttentionScale(f0.r, f0.anchor, m.ins[gemm_softmax_gemm].op.attr),
   value |-> NewId(f0.r) + 2,
   lens |-> At(f0.r, f0.anchor).shape.lens,
   inputs |-> f0.top_inputs]

\* the bias of 4 inputs
AttentionBias(m, orig_inputs, s) ==
  [r |-> add_instruction(
           add_parameter(s.r, param_name(0, "y_bias"),
                         as_standard(m.ins[orig_inputs[3]].shape)),
           Op("add", << >>), <<s.value, NewId(s.r)>>),
   value |-> NewId(s.r) + 1,
   lens |-> s.lens,
   inputs |-> Append(s.inputs, orig_inputs[3])]

\* the select of 5 inputs; y_cond gets the id NewId(s.r) and y_const the next
AttentionSelect(m, orig_inputs, s) ==
  [r |-> add_instruction(
           add_parameter(
             add_parameter(s.r, param_name(0, "y_cond"),
                           as_standard(m.ins[orig_inputs[3]].shape)),
             param_name(0, "y_const"), as_standard(m.ins[orig_inputs[4]].shape)),
           Op("where", << >>), <<NewId(s.r), s.value, NewId(s.r) + 1>>),
   value |-> NewId(s.r) + 2,
   lens |-> s.lens,
   inputs |-> s.inputs \o <<orig_inputs[3], orig_inputs[4]>>]

\* the mutant of AttentionBiased: the bias and the select are left out
AttentionUnbiased(m, orig_inputs, s) == s

AttentionBiased(m, orig_inputs, s) ==
  IF Len(orig_inputs) = 4 THEN AttentionBias(m, orig_inputs, s)
  ELSE IF Len(orig_inputs) = 5 THEN AttentionSelect(m, orig_inputs, s)
  ELSE s

\* the softmax, with the id NewId(s.r)
AttentionSoftmax(s) ==
  [r |-> add_instruction(s.r, Op("softmax", <<Len(s.lens) - 1>>), <<s.value>>),
   value |-> NewId(s.r),
   lens |-> s.lens,
   inputs |-> s.inputs]

\* the second GEMM on the softmax and on the reshapes of the parameter z
AttentionGemm1(s, v, old_upper_v) ==
  [r |-> add_instruction(v.r, Op("dot", << >>), <<s.value, v.prev_input>>),
   gemm1 |-> NewId(v.r),
   inputs |-> Append(s.inputs, old_upper_v)]

\* the parameter z, with the id NewId(s.r), and its reshapes
AttentionValue(m, s, st) ==
  AttentionGemm1(s,
    ApplyOps(add_parameter(s.r, param_name(0, "z"),
                           as_standard(m.ins[st.upper_input].shape)),
             Reverse(st.op_stream), NewId(s.r)),
    st.upper_input)

AttentionTrailingRegion(m, gemm_softmax_gemm, trailing_pm, g, fu) ==
  [mm |-> add_return(fu.r, fu.rets),
   inputs |-> g.inputs \o Without(m.ins[trailing_pm].inputs, gemm_softmax_gemm)]

AttentionTrailing(m, gemm_softmax_gemm, trailing_pm, g, lits) ==
  AttentionTrailingRegion(m, gemm_softmax_gemm, trailing_pm, g,
    fuse(lits.r, m.modules[m.ins[trailing_pm].mod], m.ins[trailing_pm].inputs, m.ins,
         [outer |-> (gemm_softmax_gemm :> g.gemm1), inner |-> lits.inner],
         "default", m.modules))

\* the region of the attention, with the trailing pointwise instruction
\* trailing_pm when it is not 0
AttentionRegion(m, gemm_softmax_gemm, trailing_pm, g) ==
  IF trailing_pm = 0
  THEN [mm |-> add_return(g.r, <<g.gemm1>>), inputs |-> g.inputs]
  ELSE AttentionTrailing(m, gemm_softmax_gemm, trailing_pm, g,
         create_param_map_with_literals(g.r, m.modules[m.ins[trailing_pm].mod],
                                        m.ins[trailing_pm].shape))

AttentionResult(m, gemm_softmax_gemm, ins_to_be_replaced, trailing_pm, mc) ==
  [m |-> IF Throws(mc) THEN mc.m
         ELSE replace_with_op(mc.m, ins_to_be_replaced, MlirOp(Op("dot", << >>)),
                              mc.inputs, NewModule(m)),
   throws |-> Throws(mc),
   rule |-> IF trailing_pm = 0 THEN "find_mlir_standalone_attention_op"
            ELSE "find_mlir_attention_fused_ops",
   matched |-> ins_to_be_replaced,
   gemm |-> gemm_softmax_gemm,
   chain |-> <<gemm_softmax_gemm>>,
   multi |-> FALSE,
   macro |-> ins_to_be_replaced,
   module |-> NewModule(m)]

\* find_mlir_standalone_attention_op::apply; trailing_pm is the pointwise
\* instruction bound by find_mlir_attention_fused_ops, or 0
AttentionApply(m, gemm_softmax_gemm, trailing_pm) ==
  AttentionResult(m, gemm_softmax_gemm,
    IF trailing_pm = 0 THEN gemm_softmax_gemm ELSE trailing_pm, trailing_pm,
    Placed(m,
      AttentionRegion(m, gemm_softmax_gemm, trailing_pm,
        AttentionValue(m,
          AttentionSoftmax(
            AttentionBiased(m, m.ins[gemm_softmax_gemm].inputs,
              AttentionScaled(m, gemm_softmax_gemm,
                fuse_input_ops_and_gemm_based_op(
                  << >>, m, SubSeq(m.ins[gemm_softmax_gemm].inputs, 1, 2),
                  Op("dot", << >>))))),
          get_fusable_input_op_stream(m, Last(m.ins[gemm_softmax_gemm].inputs),
                                      << >>)))))

(***************************************************************************)
(* find_mlir_split_reduce: a reduction after a macro-node                   *)
(***************************************************************************)
IsMlirOp(m, j) == m.ins[j].op.name = "gpu::mlir_op"

\* the input bound to "gemm" by find_mlir_split_reduce::matcher, or 0
ReduceGemm(m, i) ==
  IF mlir_split_reduce(m, i) THEN FirstInput(m, i, LAMBDA j : IsMlirOp(m, j)) ELSE 0

\* replace_instruction(outs, outs->get_operator(), fused_ins) for every
\* consumer of the reduction
RECURSIVE RedirectAll(_, _, _)
RedirectAll(m, outs, fused_ins) ==
  IF outs = {} THEN m
  ELSE RedirectAll(replace_with_op(m, CHOOSE x \in outs : TRUE,
                                   m.ins[CHOOSE x \in outs : TRUE].op, <<fused_ins>>, 0),
                   outs \ {CHOOSE x \in outs : TRUE}, fused_ins)

\* the copy of the module of the macro-node, without its @return
WithoutReturn(r) ==
  IF Last(r).op.name = "@return" THEN SubSeq(r, 1, Len(r) - 1) ELSE r

\* the mutant of SplitReduceReturns: the GEMM first
SplitReduceReturnsFirst(multi, rets, gemm) ==
  IF multi THEN <<gemm>> \o rets ELSE rets

\* return_vals, with the GEMM last when it has several consumers
SplitReduceReturns(multi, rets, gemm) ==
  IF multi THEN Append(rets, gemm) ELSE rets

SplitReduceRegion(m, reduce_ins, gemm_ins, multi, mm0, fu) ==
  [mm |-> add_return(fu.r, SplitReduceReturns(multi, fu.rets, Last(mm0).id)),
   nrets |-> Len(SplitReduceReturns(multi, fu.rets, Last(mm0).id)),
   inputs |-> Without(m.ins[reduce_ins].inputs, gemm_ins) \o m.ins[gemm_ins].inputs]

SplitReduceBody(m, reduce_ins, gemm_ins, multi, mm0) ==
  SplitReduceRegion(m, reduce_ins, gemm_ins, multi, mm0,
    fuse(mm0, m.modules[m.ins[reduce_ins].mod], m.ins[reduce_ins].inputs, m.ins,
         [outer |-> (gemm_ins :> Last(mm0).id), inner |-> << >>],
         "reduce", m.modules))

\* the consumers of the reduction read the macro-node
SplitReduceRedirect(m4, reduce_ins, fused_ins) ==
  RedirectAll(m4, outputs(m4, reduce_ins), fused_ins)

\* the replacement when the macro-node has several consumers: the new
\* macro-node is put before the reduction and its last element,
\* NewInsId(mc.m) + 1, replaces the old macro-node
SplitReduceReplaceMulti(mc, reduce_ins, gemm_ins, op, name, nrets) ==
  SplitReduceRedirect(
    replace_with_ins(
      insert_instruction(insert_instruction(mc.m, reduce_ins, op, mc.inputs, name),
                         reduce_ins, Op("get_tuple_elem", <<nrets - 1>>),
                         <<NewInsId(mc.m)>>, 0),
      gemm_ins, NewInsId(mc.m) + 1),
    reduce_ins, NewInsId(mc.m))

SplitReduceResult(m, reduce_ins, gemm_ins, multi, nrets, mc) ==
  [m |-> IF Throws(mc) THEN mc.m
         ELSE IF multi
         THEN SplitReduceReplaceMulti(mc, reduce_ins, gemm_ins,
                                      MlirOp(m.ins[gemm_ins].op), NewModule(m), nrets)
         ELSE replace_with_op(mc.m, reduce_ins, MlirOp(m.ins[gemm_ins].op),
                              mc.inputs, NewModule(m)),
   throws |-> Throws(mc),
   rule |-> "find_mlir_split_reduce",
   matched |-> reduce_ins,
   gemm |-> gemm_ins,
   chain |-> <<gemm_ins>>,
   multi |-> multi,
   macro |-> IF multi THEN NewInsId(mc.m) ELSE reduce_ins,
   module |-> NewModule(m)]

SplitReducePlaced(m, reduce_ins, gemm_ins, multi, reg) ==
  SplitReduceResult(m, reduce_ins, gemm_ins, multi, reg.nrets, Placed(m, reg))

SplitReduceApplyTo(m, reduce_ins, gemm_ins) ==
  SplitReducePlaced(m, reduce_ins, gemm_ins, Cardinality(outputs(m, gemm_ins)) > 1,
    SplitReduceBody(m, reduce_ins, gemm_ins, Cardinality(outputs(m, gemm_ins)) > 1,
                    WithoutReturn(m.modules[m.ins[gemm_ins].mod])))

\* find_mlir_split_reduce::apply
SplitReduceApply(m, reduce_ins) ==
  SplitReduceApplyTo(m, reduce_ins, ReduceGemm(m, reduce_ins))

(***************************************************************************)
(* find_pointwise_mlir: a pointwise instruction before a macro-node         *)
(***************************************************************************)
\* match::used_once
used_once(m, j) == Cardinality(outputs(m, j)) = 1

\* the input bound to "pointwise" by find_pointwise_mlir::matcher, or 0
InputPointwise(m, i) ==
  IF IsMlirOp(m, i)
  THEN FirstInput(m, i, LAMBDA j : mlir_input_pointwise(m, j) /\ used_once(m, j))
  ELSE 0

\* the instructions of outer that are taken to the parameter p
BoundTo(outer, p) == {x \in DOMAIN outer : outer[x] = p}

RECURSIVE InputsOf(_, _)
InputsOf(outer, ps) ==
  IF ps = << >> THEN << >>
  ELSE (IF BoundTo(outer, Head(ps)) = {} THEN << >>
        ELSE <<CHOOSE x \in BoundTo(outer, Head(ps)) : TRUE>>)
         \o InputsOf(outer, Tail(ps))

\* find_inputs(map_ins, parent, sub): the instructions of the parent that
\* are mapped to the parameters of sub, in the order of the parameter names
find_inputs(outer, r) == InputsOf(outer, SortedParamIds(r))

PointwiseMlirRegion(f2) ==
  [mm |-> add_return(f2.r, f2.rets),
   inputs |-> find_inputs(f2.map.outer, f2.r)]

\* the module of the macro-node is fused after the pointwise module
PointwiseMlirBody(m, i, pw, f1) ==
  PointwiseMlirRegion(
    fuse(f1.r, m.modules[m.ins[i].mod], m.ins[i].inputs, m.ins,
         [outer |-> (pw :> f1.rets[1]) @@ f1.map.outer, inner |-> << >>],
         "default", m.modules))

PointwiseMlirResult(m, i, pw, mc) ==
  [m |-> IF Throws(mc) THEN mc.m
         ELSE replace_with_op(mc.m, i, m.ins[i].op, mc.inputs, NewModule(m)),
   throws |-> Throws(mc),
   rule |-> "find_pointwise_mlir",
   matched |-> i,
   gemm |-> i,
   chain |-> <<pw>>,
   multi |-> FALSE,
   macro |-> i,
   module |-> NewModule(m)]

PointwiseMlirApplyTo(m, i, pw) ==
  PointwiseMlirResult(m, i, pw,
    Placed(m, PointwiseMlirBody(m, i, pw,
                fuse(<< >>, m.modules[m.ins[pw].mod], m.ins[pw].inputs, m.ins,
                     EmptyMap, "common", m.modules))))

\* find_pointwise_mlir::apply
PointwiseMlirApply(m, i) ==
  PointwiseMlirApplyTo(m, i, InputPointwise(m, i))

(***************************************************************************)
(* The programs the pass is run on.  A program is described by its anchor,  *)
(* an operation before the anchor's operand, the chain of reshapes after    *)
(* the anchor, the consumer of the chain and a second consumer.             *)
(***************************************************************************)
\* module::add_instruction on the parent module: the instruction is put at
\* the end
add_ins(m, op, inputs, mod) ==
  [m EXCEPT
     !.ins = (NewInsId(m) :> MIns(op, inputs, ins_shape(m, op, inputs, mod), mod)) @@ @,
     !.order = Append(@, NewInsId(m))]

\* module::add_parameter on the parent module
add_param(m, sh) ==
  [m EXCEPT
     !.ins = (NewInsId(m) :> MIns(ParamOp(param_name(NewInsId(m), "p")), << >>, sh, 0)) @@ @,
     !.order = Append(@, NewInsId(m))]

\* the shape of the values of a pointwise module
Scalar(t) == Shape(t, <<1>>, "standard")

\* the module of a pointwise instruction with one operation of one input
PwUnary(name, t) ==
  LET r1 == add_parameter(<< >>, param_name(0, "x"), Scalar(t))
      r2 == add_instruction(r1, Op(name, << >>), <<1>>)
  IN  add_return(r2, <<2>>)

\* the module of a pointwise instruction that adds its two inputs
PwAdd(t) ==
  LET r1 == add_parameter(<< >>, param_name(0, "x"), Scalar(t))
      r2 == add_parameter(r1, param_name(1, "x"), Scalar(t))
      r3 == add_instruction(r2, Op("add", << >>), <<1, 2>>)
  IN  add_return(r3, <<3>>)

\* the module of a pointwise instruction that adds a literal to its input
PwAddLit(t) ==
  LET r1 == add_parameter(<< >>, param_name(0, "x"), Scalar(t))
      r2 == add_literal(r1, [value |-> <<1>>, shape |-> Scalar(t)])
      r3 == add_instruction(r2, Op("add", << >>), <<1, 2>>)
  IN  add_return(r3, <<3>>)

\* the module of a split_fused_reduce instruction: two reductions of its
\* input, or a reduction and a pointwise instruction (module pw) after it
ReduceModule(sh, op1, op2, pw) ==
  LET r1 == add_parameter(<< >>, param_name(0, "x"), as_standard(sh))
      r2 == add_instruction(r1, Op(op1, << >>), <<1>>)
      r3 == IF pw = 0 THEN add_instruction(r2, Op(op2, << >>), <<1>>)
            ELSE Append(r2, RIns(3, Op("pointwise", << >>), <<2>>, At(r2, 2).shape, pw))
  IN  add_return(r3, <<2, 3>>)

DotAnchors == {"dot", "dot_bigk", "quant_dot", "dot_double"}

ConvAnchors == {"conv1x1", "conv3x3"}

AttentionAnchors == {"attention3", "attention4", "attention5", "attention3_double"}

Anchors == DotAnchors \cup ConvAnchors \cup AttentionAnchors

AnchorType(a) ==
  IF a = "quant_dot" THEN "int8_type"
  ELSE IF a \in {"dot_double", "attention3_double"} THEN "double_type"
  ELSE "float_type"

\* the contraction dimension of the GEMM
AnchorK(a) == IF a = "dot_bigk" THEN 2 * KLimit ELSE 4

Pres ==
  {"none", "transpose", "slice", "squeeze_unsqueeze", "pointwise", "pointwise_shared",
   "pointwise_both"}

ChainOps == {"squeeze", "unsqueeze", "transpose"}

Chains == UNION {[1..n -> ChainOps] : n \in 0..MaxChain}

PwConsumers == {"none", "relu", "add", "add_lit", "sin", "add_self", "add_strided"}

ReduceConsumers == {"reduce", "reduce_pw", "reduce_max", "reduce_slice"}

Consumers == PwConsumers \cup ReduceConsumers

Sides == {"none", "gemm_before", "gemm_after", "chain_after"}

\* an operand of shape lens, behind the operation pre; the result holds the
\* module and the operand
Operand(m, t, lens, pre) ==
  LET p == NewInsId(m)
      m1 == add_param(m, Shape(t, IF pre \in {"transpose", "squeeze_unsqueeze"}
                                  THEN Reverse(lens) ELSE lens,
                               "standard"))
      m2 == IF pre = "transpose" THEN add_ins(m1, Op("transpose", << >>), <<p>>, 0)
            ELSE IF pre = "slice" THEN add_ins(m1, Op("slice", << >>), <<p>>, 0)
            ELSE IF pre = "squeeze_unsqueeze"
            THEN add_ins(add_ins(m1, Op("squeeze", << >>), <<p>>, 0),
                         Op("unsqueeze", << >>), <<p + 1>>, 0)
            ELSE IF pre \in {"pointwise", "pointwise_shared", "pointwise_both"}
            THEN add_ins(create_module(m1, PwUnary("relu", t)), Op("pointwise", << >>),
                         <<p>>, NewModule(m1))
            ELSE m1
  IN  [m |-> m2,
       x |-> IF pre = "none" THEN p ELSE IF pre = "squeeze_unsqueeze" THEN p + 2 ELSE p + 1]

AnchorOp(anchor) ==
  IF anchor = "quant_dot" THEN Op("quant_dot", << >>)
  ELSE IF anchor \in DotAnchors THEN Op("dot", << >>)
  ELSE IF anchor \in ConvAnchors THEN Op("convolution", <<1>>)
  ELSE Op("gpu::pre_gemm_softmax_gemm", <<2>>)

\* the anchor on the operands ids
Anchored(m, anchor, ids) ==
  [m |-> add_ins(m, AnchorOp(anchor), ids, 0), gemm |-> NewInsId(m)]

\* an anchor of two operands
WithTwo(d, a, b) == Anchored(b.m, d.anchor, <<a.x, b.x>>)

AttentionLastOf(d, ids, v) == Anchored(v.m, d.anchor, Append(ids, v.x))

\* the last operand of an attention
AttentionLast(d, t, ids, o) ==
  AttentionLastOf(d, ids, Operand(o.m, t, <<3, 2>>, d.pre))

\* the bias of an attention of 4 inputs
AttentionMid(d, t, ids, c) == AttentionLast(d, t, Append(ids, c.x), c)

\* the constant of an attention of 5 inputs, after the condition c
AttentionMid2Of(d, t, ids, c, e) == AttentionLast(d, t, ids \o <<c.x, e.x>>, e)

AttentionMid2(d, t, ids, c) ==
  AttentionMid2Of(d, t, ids, c, Operand(c.m, t, <<1, 3>>, "none"))

\* the operands of an attention between the second and the last
AttentionExtra(d, t, a, b) ==
  IF d.anchor = "attention4"
  THEN AttentionMid(d, t, <<a.x, b.x>>, Operand(b.m, t, <<1, 3>>, "none"))
  ELSE IF d.anchor = "attention5"
  THEN AttentionMid2(d, t, <<a.x, b.x>>, Operand(b.m, "bool_type", <<1, 3>>, "none"))
  ELSE AttentionLast(d, t, <<a.x, b.x>>, b)

\* the second operand
SecondOperand(d, t, a) ==
  IF d.pre = "pointwise_shared"
  THEN WithTwo(d, a, [m |-> a.m, x |-> a.x - 1])
  ELSE IF d.anchor \in DotAnchors
  THEN WithTwo(d, a, Operand(a.m, t, <<IF d.pre = "slice" THEN 1 ELSE AnchorK(d.anchor), 3>>,
                             IF d.pre = "pointwise_both" THEN "pointwise" ELSE "none"))
  ELSE IF d.anchor = "conv1x1"
  THEN WithTwo(d, a, Operand(a.m, t, <<3, 2, 1, 1>>, "none"))
  ELSE IF d.anchor = "conv3x3"
  THEN WithTwo(d, a, Operand(a.m, t, <<3, 2, 3, 3>>, "none"))
  ELSE AttentionExtra(d, t, a, Operand(a.m, t, <<4, 3>>, "none"))

\* the operands of the anchor and the anchor
WithAnchor(d) ==
  SecondOperand(d, AnchorType(d.anchor),
    IF d.pre = "pointwise_shared"
    THEN Operand(EmptyModule, AnchorType(d.anchor),
                 <<AnchorK(d.anchor), AnchorK(d.anchor)>>, d.pre)
    ELSE IF d.anchor \in DotAnchors
    THEN Operand(EmptyModule, AnchorType(d.anchor), <<1, AnchorK(d.anchor)>>, d.pre)
    ELSE IF d.anchor \in ConvAnchors
    THEN Operand(EmptyModule, AnchorType(d.anchor), <<1, 2, 4, 4>>, "none")
    ELSE Operand(EmptyModule, AnchorType(d.anchor), <<1, 4>>, "none"))

\* the chain of reshapes after x
RECURSIVE WithChain(_, _, _)
WithChain(m, x, chain) ==
  IF chain = << >> THEN [m |-> m, x |-> x]
  ELSE WithChain(add_ins(m, Op(Head(chain), << >>), <<x>>, 0), NewInsId(m), Tail(chain))

\* a consumer that no rule fuses
WithSide(m, x) ==
  [m |-> add_ins(m, Op("identity", << >>), <<x>>, 0), outs |-> <<NewInsId(m)>>]

\* a value of lens <<1, 3>> that is neither packed nor broadcasted: the first
\* column of a parameter of lens <<3, 2>>, squeezed and unsqueezed
Strided(m, t) ==
  add_ins(add_ins(add_ins(add_param(m, Shape(t, <<3, 2>>, "standard")),
                          Op("slice", << >>), <<NewInsId(m)>>, 0),
                  Op("squeeze", << >>), <<NewInsId(m) + 1>>, 0),
          Op("unsqueeze", << >>), <<NewInsId(m) + 2>>, 0)

\* the consumer of x; the result holds the module and what the program
\* returns of it
WithConsumer(m, gemm, x, consumer) ==
  LET t == m.ins[x].shape.type
      name == NewModule(m)
      pw(r, inputs) ==
        [m |-> add_ins(create_module(m, r), Op("pointwise", << >>), inputs, name),
         outs |-> <<NewInsId(m)>>]
      withc == add_param(m, m.ins[x].shape)
      withi == add_ins(m, Op("identity", << >>), <<gemm>>, 0)
      red(r) ==
        LET m1 == add_ins(create_module(m, r), Op("split_fused_reduce", << >>), <<x>>, name)
        IN  [m |-> add_ins(m1, Op("get_tuple_elem", <<0>>), <<NewInsId(m)>>, 0),
             outs |-> <<NewInsId(m1)>>]
      sub == create_module(m, PwUnary("relu", t))
      withs == Strided(m, t)
  IN  CASE consumer = "none" -> [m |-> m, outs |-> <<x>>]
        [] consumer = "relu" -> pw(PwUnary("relu", t), <<x>>)
        [] consumer = "sin" -> pw(PwUnary("sin", t), <<x>>)
        [] consumer = "add_lit" -> pw(PwAddLit(t), <<x>>)
        [] consumer = "add" ->
             [m |-> add_ins(create_module(withc, PwAdd(t)), Op("pointwise", << >>),
                            <<x, NewInsId(m)>>, name),
              outs |-> <<NewInsId(withc)>>]
        [] consumer = "add_strided" ->
             [m |-> add_ins(create_module(withs, PwAdd(t)), Op("pointwise", << >>),
                            <<x, NewInsId(withs) - 1>>, name),
              outs |-> <<NewInsId(withs)>>]
        [] consumer = "add_self" ->
             [m |-> add_ins(create_module(withi, PwAdd(t)), Op("pointwise", << >>),
                            <<x, NewInsId(m)>>, name),
              outs |-> <<NewInsId(withi)>>]
        [] consumer = "reduce" ->
             red(ReduceModule(m.ins[x].shape, "reduce_sum", "reduce_mean", 0))
        [] consumer = "reduce_max" ->
             red(ReduceModule(m.ins[x].shape, "reduce_max", "reduce_sum", 0))
        [] consumer = "reduce_slice" ->
             red(ReduceModule(m.ins[x].shape, "slice", "reduce_sum", 0))
        [] consumer = "reduce_pw" ->
             LET m1 == add_ins(create_module(sub,
                                 ReduceModule(m.ins[x].shape, "reduce_sum", "reduce_sum", name)),
                               Op("split_fused_reduce", << >>), <<x>>, name + 1)
             IN  [m |-> add_ins(m1, Op("get_tuple_elem", <<0>>), <<NewInsId(m)>>, 0),
                  outs |-> <<NewInsId(m1)>>]

\* the @return of the program
Returned3(m, o1, o2, o3) ==
  add_ins(m, Op("@return", << >>), o1 \o o2 \o o3, 0)

SideAfter(d, gemm, x, sb, co) ==
  IF d.side = "gemm_after"
  THEN Returned3(WithSide(co.m, gemm).m, co.outs, sb.outs, <<NewInsId(co.m)>>)
  ELSE IF d.side = "chain_after"
  THEN Returned3(WithSide(co.m, x).m, co.outs, sb.outs, <<NewInsId(co.m)>>)
  ELSE Returned3(co.m, co.outs, sb.outs, << >>)

Consumed(d, gemm, x, sb) ==
  SideAfter(d, gemm, x, sb, WithConsumer(sb.m, gemm, x, d.consumer))

SideBefore(d, gemm, ch) ==
  Consumed(d, gemm, ch.x,
           IF d.side = "gemm_before" THEN WithSide(ch.m, gemm)
           ELSE [m |-> ch.m, outs |-> << >>])

Chained(d, g) == SideBefore(d, g.gemm, WithChain(g.m, g.gemm, d.chain))

\* the program described by d
InputGraph(d) == Chained(d, WithAnchor(d))

\* the programs: reshapes after a plain GEMM only, an operation before the
\* operand of a GEMM or of an attention only
Descriptors ==
  {d \in [anchor : Anchors, pre : Pres, chain : Chains, consumer : Consumers,
          side : Sides] :
     /\ d.chain # << >> => d.anchor = "dot" /\ d.consumer \in PwConsumers
     /\ d.side = "chain_after" => d.chain # << >>
     /\ d.pre # "none" =>
          /\ d.chain = << >> /\ d.side = "none"
          /\ d.anchor = "dot" \/ (d.anchor \in AttentionAnchors /\ d.pre = "transpose")
     /\ d.anchor \in AttentionAnchors =>
          d.consumer \in {"none", "relu", "add"} /\ d.side = "none"
     /\ d.anchor # "dot" => d.side \in {"none", "gemm_after"}
     /\ d.consumer = "none" => d.side = "none"
     /\ d.pre \in {"pointwise_shared", "pointwise_both", "squeeze_unsqueeze"} =>
          d.anchor = "dot" /\ d.consumer \in {"none", "relu"}
     /\ d.consumer = "add_strided" =>
          d.anchor \in {"dot", "dot_double"} /\ d.chain = << >> /\ d.pre = "none"}

(***************************************************************************)
(* fuse_mlir::apply.  prog is the module the pass rewrites, cfg the         *)
(* environment and the device, pc the find_matches call or pass that is     *)
(* running, trace the steps that have finished, last what the last rewrite  *)
(* matched and the module before it, origin the rule that built each        *)
(* sub-module, run the number of the invocation and first the module the    *)
(* first invocation left.                                                   *)
(***************************************************************************)
S_not_dot == <<"!">> \o S_dot

\* env is MIGRAPHX_MLIR_USE_SPECIFIC_OPS, disable_mlir MIGRAPHX_DISABLE_MLIR,
\* reduce_fusion MIGRAPHX_ENABLE_MLIR_REDUCE_FUSION and input_fusion
\* MIGRAPHX_ENABLE_MLIR_INPUT_FUSION
Config(env, device_name, disable_mlir, reduce_fusion, input_fusion) ==
  [env |-> env, device_name |-> device_name, disable_mlir |-> disable_mlir,
   reduce_fusion |-> reduce_fusion, input_fusion |-> input_fusion]

Configs ==
  {Config(S_empty, S_gfx90a, FALSE, r, i) : r \in BOOLEAN, i \in BOOLEAN}
    \cup {Config(S_attention, S_gfx90a, d, ~d, ~d) : d \in BOOLEAN}
    \cup {Config(S_dot, g, FALSE, FALSE, FALSE) : g \in {S_gfx90a, S_gfx1100}}
    \cup {Config(S_empty, S_gfx1100, FALSE, FALSE, TRUE),
          Config(S_not_dot, S_gfx90a, FALSE, TRUE, FALSE)}

\* mlir_enabled() in a build with MIGRAPHX_MLIR
mlir_enabled(c) == ~c.disable_mlir

\* mlir_attention_enabled()
mlir_attention_enabled(c) ==
  IF ~mlir_enabled(c) THEN FALSE
  ELSE specific_op(c.env, TRUE, S_attention, FALSE)

\* the modes fuse_mlir::apply gives to find_mlir_fused_ops and
\* find_mlir_split_reduce
FusedModes(c) ==
  [conv_mode |-> get_mode(c.env, c.device_name, S_fused_convolution, "fast", "fast"),
   dot_mode |-> get_mode(c.env, c.device_name, S_fused_dot, "fast", "fast")]

\* the modes fuse_mlir::apply gives to find_mlir_standalone_convolution_op
\* and find_mlir_standalone_dot_op
StandaloneModes(c) ==
  [conv_mode |-> get_mode(c.env, c.device_name, S_convolution, "fast", "fast"),
   dot_mode |-> get_mode(c.env, c.device_name, S_dot, "fast", "fast")]

\* the mutant of Steps: dead-code elimination before the standalone rules
StepsDceEarly ==
  <<"attention_fused", "attention_standalone", "fused_ops", "dce", "standalone",
    "split_reduce", "pointwise_mlir">>

\* the statements of fuse_mlir::apply in the order of the code
Steps ==
  <<"attention_fused", "attention_standalone", "fused_ops", "standalone", "dce",
    "split_reduce", "pointwise_mlir">>

\* the conditions of fuse_mlir::apply around its statements
StepEnabled(c, s) ==
  CASE s \in {"attention_fused", "attention_standalone"} -> mlir_attention_enabled(c)
    [] s = "split_reduce" -> c.reduce_fusion
    [] s = "pointwise_mlir" -> c.input_fusion
    [] OTHER -> TRUE

\* the statement that runs after the k-th one (0: the first to run)
StepAfter(c, k) ==
  LET later == {j \in (k + 1)..Len(Steps) : StepEnabled(c, Steps[j])}
  IN  IF later = {} THEN "done"
      ELSE Steps[CHOOSE j \in later : \A i \in later : j <= i]

StepIndex(s) == CHOOSE k \in 1..Len(Steps) : Steps[k] = s

NoRewrite ==
  [rule |-> "none", throws |-> FALSE, matched |-> 0, gemm |-> 0, chain |-> << >>,
   multi |-> FALSE, macro |-> 0, module |-> 0, before |-> EmptyModule]

passvars == <<prog, pc, trace, cfg, last, origin, run, first>>

\* the pass is not running while a predicate is called on its own
PassIdle ==
  /\ prog = EmptyModule
  /\ pc = "idle"
  /\ trace = << >>
  /\ cfg = Config(S_empty, S_empty, FALSE, FALSE, FALSE)
  /\ last = NoRewrite
  /\ origin = << >>
  /\ run = 0
  /\ first = EmptyModule

InitPass ==
  /\ call = [fn |-> "fuse_mlir::apply"]
  /\ ret = << >>
  /\ \E d \in Descriptors : prog = InputGraph(d)
  /\ cfg \in Configs
  /\ pc = "start"
  /\ trace = << >>
  /\ last = NoRewrite
  /\ origin = << >>
  /\ run = 1
  /\ first = EmptyModule

\* match::find_matches: the first instruction, in the order of the module,
\* that a rewrite applies to, or 0
FirstMatch(m, P(_)) ==
  LET hits == {k \in 1..Len(m.order) : P(m.order[k])}
  IN  IF hits = {} THEN 0
      ELSE m.order[CHOOSE k \in hits : \A j \in hits : k <= j]

\* a rewrite of the running find_matches call: the module is replaced, and
\* the pass ends with an exception if mlir_op::compute_shape throws
Commit(res) ==
  /\ prog' = res.m
  /\ last' = [rule |-> res.rule, throws |-> res.throws, matched |-> res.matched,
              gemm |-> res.gemm, chain |-> res.chain, multi |-> res.multi,
              macro |-> res.macro, module |-> res.module, before |-> prog]
  /\ origin' = (res.module :> res.rule) @@ origin
  /\ pc' = IF res.throws THEN "error" ELSE pc
  /\ UNCHANGED <<call, ret, trace, cfg, run, first>>

\* the running statement has finished
Finish(s) ==
  /\ pc' = StepAfter(cfg, StepIndex(s))
  /\ trace' = Append(trace, s)
  /\ last' = NoRewrite
  /\ UNCHANGED <<call, ret, cfg, origin, run, first>>

\* the entry of fuse_mlir::apply
Begin ==
  /\ pc = "start"
  /\ pc' = StepAfter(cfg, 0)
  /\ last' = NoRewrite
  /\ UNCHANGED <<call, ret, prog, trace, cfg, origin, run, first>>

AttentionFusedMatch(m, i) == TrailingAttention(m, i) # 0

RewriteAttentionFused ==
  /\ pc = "attention_fused"
  /\ FirstMatch(prog, LAMBDA i : AttentionFusedMatch(prog, i)) # 0
  /\ LET i == FirstMatch(prog, LAMBDA j : AttentionFusedMatch(prog, j))
     IN  \E res \in {AttentionApply(prog, TrailingAttention(prog, i), i)} : Commit(res)

FinishAttentionFused ==
  /\ pc = "attention_fused"
  /\ FirstMatch(prog, LAMBDA i : AttentionFusedMatch(prog, i)) = 0
  /\ Finish("attention_fused")
  /\ UNCHANGED prog

RewriteAttentionStandalone ==
  /\ pc = "attention_standalone"
  /\ FirstMatch(prog, LAMBDA i : IsAttention(prog, i)) # 0
  /\ \E res \in {AttentionApply(prog, FirstMatch(prog, LAMBDA i : IsAttention(prog, i)), 0)} : Commit(res)

FinishAttentionStandalone ==
  /\ pc = "attention_standalone"
  /\ FirstMatch(prog, LAMBDA i : IsAttention(prog, i)) = 0
  /\ Finish("attention_standalone")
  /\ UNCHANGED prog

FusedMatch(m, c, i) ==
  FusedMatches(m, FusedModes(c), i) /\ ~FusedDiscards(m, FusedModes(c), i)

RewriteFusedOps ==
  /\ pc = "fused_ops"
  /\ FirstMatch(prog, LAMBDA i : FusedMatch(prog, cfg, i)) # 0
  /\ \E res \in {FusedApply(prog, FusedModes(cfg),
                       FirstMatch(prog, LAMBDA i : FusedMatch(prog, cfg, i)))} : Commit(res)

FinishFusedOps ==
  /\ pc = "fused_ops"
  /\ FirstMatch(prog, LAMBDA i : FusedMatch(prog, cfg, i)) = 0
  /\ Finish("fused_ops")
  /\ UNCHANGED prog

StandaloneMatch(m, c, i) ==
  StandaloneMatches(m, StandaloneModes(c), i) /\ ~StandaloneDiscards(m, i)

RewriteStandalone ==
  /\ pc = "standalone"
  /\ FirstMatch(prog, LAMBDA i : StandaloneMatch(prog, cfg, i)) # 0
  /\ \E res \in {StandaloneApply(prog, FirstMatch(prog, LAMBDA i : StandaloneMatch(prog, cfg, i)))} : Commit(res)

FinishStandalone ==
  /\ pc = "standalone"
  /\ FirstMatch(prog, LAMBDA i : StandaloneMatch(prog, cfg, i)) = 0
  /\ Finish("standalone")
  /\ UNCHANGED prog

\* mpm.run_pass(dead_code_elimination{})
Dce ==
  /\ pc = "dce"
  /\ prog' = dead_code_elimination(prog)
  /\ Finish("dce")

RewriteSplitReduce ==
  /\ pc = "split_reduce"
  /\ FirstMatch(prog, LAMBDA i : ReduceGemm(prog, i) # 0) # 0
  /\ \E res \in {SplitReduceApply(prog, FirstMatch(prog, LAMBDA i : ReduceGemm(prog, i) # 0))} : Commit(res)

FinishSplitReduce ==
  /\ pc = "split_reduce"
  /\ FirstMatch(prog, LAMBDA i : ReduceGemm(prog, i) # 0) = 0
  /\ Finish("split_reduce")
  /\ UNCHANGED prog

RewritePointwiseMlir ==
  /\ pc = "pointwise_mlir"
  /\ FirstMatch(prog, LAMBDA i : InputPointwise(prog, i) # 0) # 0
  /\ \E res \in {PointwiseMlirApply(prog, FirstMatch(prog, LAMBDA i : InputPointwise(prog, i) # 0))} : Commit(res)

\* the mutant of FinishPointwiseMlir: the statement is left after any scan
FinishPointwiseMlirEarly ==
  /\ pc = "pointwise_mlir"
  /\ Finish("pointwise_mlir")
  /\ UNCHANGED prog

FinishPointwiseMlir ==
  /\ pc = "pointwise_mlir"
  /\ FirstMatch(prog, LAMBDA i : InputPointwise(prog, i) # 0) = 0
  /\ Finish("pointwise_mlir")
  /\ UNCHANGED prog

\* the pass is run again on the module it left
RunAgain ==
  /\ pc = "done"
  /\ run = 1
  /\ run' = 2
  /\ first' = prog
  /\ pc' = "start"
  /\ trace' = << >>
  /\ last' = NoRewrite
  /\ UNCHANGED <<call, ret, prog, cfg, origin>>

NextPass ==
  \/ Begin
  \/ RewriteAttentionFused
  \/ FinishAttentionFused
  \/ RewriteAttentionStandalone
  \/ FinishAttentionStandalone
  \/ RewriteFusedOps
  \/ FinishFusedOps
  \/ RewriteStandalone
  \/ FinishStandalone
  \/ Dce
  \/ RewriteSplitReduce
  \/ FinishSplitReduce
  \/ RewritePointwiseMlir
  \/ FinishPointwiseMlir
  \/ RunAgain

SpecPass == InitPass /\ [][NextPass]_vars

\* the second invocation has returned, or an invocation has thrown
Halted == pc = "error" \/ (pc = "done" /\ run = 2)

\* fuse_mlir::apply is a sequential function: the statement it stands at is
\* executed, until it returns or throws.  This is weak fairness of NextPass,
\* with ENABLED <<NextPass>>_vars written out as ~Halted: each statement has
\* its Rewrite or its Finish action, whose conditions are each other's
\* negation.
FairPass == SpecPass /\ ([]<>Halted \/ []<><<NextPass>>_vars)

(***************************************************************************)
(* The apply of a rule, statement by statement: the sub-module is created   *)
(* and filled, its @return is added, and only then is the module of the     *)
(* program changed.  call holds the place inside the apply.                 *)
(***************************************************************************)
\* the running find_matches call has an instruction to rewrite in m
RuleMatches(s, m, c) ==
  CASE s = "attention_fused" ->
         FirstMatch(m, LAMBDA i : AttentionFusedMatch(m, i)) # 0
    [] s = "attention_standalone" -> FirstMatch(m, LAMBDA i : IsAttention(m, i)) # 0
    [] s = "fused_ops" -> FirstMatch(m, LAMBDA i : FusedMatch(m, c, i)) # 0
    [] s = "standalone" -> FirstMatch(m, LAMBDA i : StandaloneMatch(m, c, i)) # 0
    [] s = "split_reduce" -> FirstMatch(m, LAMBDA i : ReduceGemm(m, i) # 0) # 0
    [] s = "pointwise_mlir" -> FirstMatch(m, LAMBDA i : InputPointwise(m, i) # 0) # 0
    [] OTHER -> FALSE

\* what the apply of the rule of the statement s makes of m
RuleResult(s, m, c) ==
  CASE s = "attention_fused" ->
         AttentionApply(m,
           TrailingAttention(m, FirstMatch(m, LAMBDA i : AttentionFusedMatch(m, i))),
           FirstMatch(m, LAMBDA i : AttentionFusedMatch(m, i)))
    [] s = "attention_standalone" ->
         AttentionApply(m, FirstMatch(m, LAMBDA i : IsAttention(m, i)), 0)
    [] s = "fused_ops" ->
         FusedApply(m, FusedModes(c), FirstMatch(m, LAMBDA i : FusedMatch(m, c, i)))
    [] s = "standalone" ->
         StandaloneApply(m, FirstMatch(m, LAMBDA i : StandaloneMatch(m, c, i)))
    [] s = "split_reduce" ->
         SplitReduceApply(m, FirstMatch(m, LAMBDA i : ReduceGemm(m, i) # 0))
    [] OTHER ->
         PointwiseMlirApply(m, FirstMatch(m, LAMBDA i : InputPointwise(m, i) # 0))

\* find_matches is scanning the module
Scanning == call = [fn |-> "fuse_mlir::apply"]

\* the apply of the rule has reached the place at
InApply(at) == call = [fn |-> "apply", at |-> at]

\* the module as it was before create_module
BeforeCreate(m) == [m EXCEPT !.modules = SubSeq(@, 1, Len(@) - 1)]

BuildWith(res) ==
  /\ prog' = create_module(prog, WithoutReturn(res.m.modules[res.module]))
  /\ call' = [fn |-> "apply", at |-> "built"]
  /\ UNCHANGED <<ret, pc, trace, cfg, last, origin, run, first>>

\* create_module and the instructions of the sub-module, up to add_return
ApplyBuild ==
  /\ pc \in {"attention_fused", "attention_standalone", "fused_ops", "standalone",
             "split_reduce", "pointwise_mlir"}
  /\ Scanning
  /\ RuleMatches(pc, prog, cfg)
  /\ BuildWith(RuleResult(pc, prog, cfg))

ReturnWith(res) ==
  /\ prog' = [prog EXCEPT !.modules[res.module] = res.m.modules[res.module]]
  /\ call' = [fn |-> "apply", at |-> "returned"]
  /\ UNCHANGED <<ret, pc, trace, cfg, last, origin, run, first>>

\* the mutant of ApplyReturn: the apply goes on without add_return
ApplyReturnSkipped ==
  /\ InApply("built")
  /\ call' = [fn |-> "apply", at |-> "returned"]
  /\ UNCHANGED <<ret, prog, pc, trace, cfg, last, origin, run, first>>

\* mm->add_return(...)
ApplyReturn ==
  /\ InApply("built")
  /\ ReturnWith(RuleResult(pc, BeforeCreate(prog), cfg))

ReplaceWith(res, before) ==
  /\ prog' = res.m
  /\ last' = [rule |-> res.rule, throws |-> res.throws, matched |-> res.matched,
              gemm |-> res.gemm, chain |-> res.chain, multi |-> res.multi,
              macro |-> res.macro, module |-> res.module, before |-> before]
  /\ origin' = (res.module :> res.rule) @@ origin
  /\ pc' = IF res.throws THEN "error" ELSE pc
  /\ call' = [fn |-> "fuse_mlir::apply"]
  /\ UNCHANGED <<ret, trace, cfg, run, first>>

\* mlir_contiguous and the insert, move and replace of the instructions of
\* the module of the program
ApplyReplace ==
  /\ InApply("returned")
  /\ ReplaceWith(RuleResult(pc, BeforeCreate(prog), cfg), BeforeCreate(prog))

NextApply ==
  \/ Begin
  \/ ApplyBuild
  \/ ApplyReturn
  \/ ApplyReplace
  \/ FinishAttentionFused
  \/ FinishAttentionStandalone
  \/ FinishFusedOps
  \/ FinishStandalone
  \/ Dce
  \/ FinishSplitReduce
  \/ FinishPointwiseMlir

SpecApply == InitPass /\ [][NextApply]_vars

(***************************************************************************)
(* Claims about the pass, under SpecPass.                                   *)
(***************************************************************************)
Done == pc = "done"

\* a rewrite has just replaced the module
Rewrote(rule) == last.rule = rule /\ ~last.throws

\* the entries of the list, as written
Listed(env, name) == VecContains(split_string(env, S_comma), name)

\* the class of the standalone rules an anchor belongs to
ClassOf(op) ==
  IF op.name \in {"convolution", "quant_convolution"} THEN S_convolution ELSE S_dot

\* C5: when MIGRAPHX_MLIR_USE_SPECIFIC_OPS is defined, a macro-node is made
\* of a GEMM or convolution on its own only if the class of the operation is
\* listed, and of a GEMM or convolution with a pointwise consumer only if
\* fused, or the fused class of the operation, is listed.
C5_OnlyListedClasses ==
  cfg.env # S_empty =>
    /\ Rewrote("find_mlir_standalone_op") =>
         Listed(cfg.env, ClassOf(last.before.ins[last.gemm].op))
    /\ Rewrote("find_mlir_fused_ops") =>
         \/ Listed(cfg.env, S_fused)
         \/ Listed(cfg.env, S_fused \o <<"_">> \o ClassOf(last.before.ins[last.gemm].op))

\* the steps the configuration asks for, in the order the pass is to run them
ExpectedSteps(c) ==
  (IF ~c.disable_mlir /\ Listed(c.env, S_attention)
   THEN <<"attention_fused", "attention_standalone">> ELSE << >>)
    \o <<"fused_ops", "standalone", "dce">>
    \o (IF c.reduce_fusion THEN <<"split_reduce">> ELSE << >>)
    \o (IF c.input_fusion THEN <<"pointwise_mlir">> ELSE << >>)

\* the step a rule rewrites in
RuleStep ==
  [find_mlir_attention_fused_ops |-> "attention_fused",
   find_mlir_standalone_attention_op |-> "attention_standalone",
   find_mlir_fused_ops |-> "fused_ops",
   find_mlir_standalone_op |-> "standalone",
   find_mlir_split_reduce |-> "split_reduce",
   find_pointwise_mlir |-> "pointwise_mlir"]

Running == pc \notin {"idle", "start", "done", "error"}

\* C6: on every invocation the steps that have finished, followed by the one
\* that is running, are the first of the steps the configuration asks for, in
\* their order; a rule rewrites only while its own step is running; and when
\* the pass is done every step the configuration asks for has run, the
\* ungated ones among them.
C6_StepOrder ==
  /\ Running =>
       /\ Len(trace) < Len(ExpectedSteps(cfg))
       /\ Append(trace, pc) = SubSeq(ExpectedSteps(cfg), 1, Len(trace) + 1)
  /\ (last.rule # "none" /\ pc # "error") => RuleStep[last.rule] = pc
  /\ Done =>
       /\ trace = ExpectedSteps(cfg)
       /\ \A s \in {"fused_ops", "standalone", "dce"} : VecContains(trace, s)

\* an invocation that ran the seven steps, a gated rule having rewritten
C6_Witness ==
  /\ Done
  /\ Len(trace) = 7
  /\ \E n \in DOMAIN origin : origin[n] = "find_mlir_standalone_attention_op"

\* the GEMM, or a reshape between it and the pointwise instruction, had
\* several consumers before the rewrite
SeveralConsumers ==
  \E k \in 1..Len(last.chain) : Cardinality(outputs(last.before, last.chain[k])) > 1

\* the operation the module of the matched pointwise instruction returned
PointwiseResultOp ==
  At(last.before.modules[last.before.ins[last.matched].mod],
     ReturnIds(last.before.modules[last.before.ins[last.matched].mod])[1]).op

\* the values the region r returns are those of ops, in this order
ReturnsOps(r, ops) ==
  /\ Len(ReturnIds(r)) = Len(ops)
  /\ \A k \in 1..Len(ops) : At(r, ReturnIds(r)[k]).op = ops[k]

IsElement(m, i, index, macro) ==
  /\ m.ins[i].op = Op("get_tuple_elem", <<index>>)
  /\ m.ins[i].inputs = <<macro>>

\* what the rewrite leaves when a GEMM with several consumers was matched;
\* the macro-node is what the pointwise instruction now reads
MultiConsumerShape(pw, macro) ==
  /\ IsElement(prog, pw, 1, macro)
  /\ prog.ins[macro].op = MlirOp(last.before.ins[last.gemm].op)
  /\ prog.ins[macro].shape.type = "tuple_type"
  /\ Len(prog.ins[macro].shape.subs) = 2
  /\ ReturnsOps(prog.modules[prog.ins[macro].mod],
                <<last.before.ins[last.gemm].op, PointwiseResultOp>>)
  /\ \A c \in outputs(last.before, last.gemm) \ {pw} :
       \A k \in 1..Len(last.before.ins[c].inputs) :
         last.before.ins[c].inputs[k] = last.gemm =>
           IsElement(prog, prog.ins[c].inputs[k], 0, macro)
  /\ outputs(prog, last.gemm) = {}

\* what the rewrite leaves when the GEMM and the reshapes had one consumer
SingleConsumerShape(pw) ==
  /\ prog.ins[pw].op = MlirOp(last.before.ins[last.gemm].op)
  /\ prog.ins[pw].shape.type # "tuple_type"
  /\ ReturnsOps(prog.modules[prog.ins[pw].mod], <<PointwiseResultOp>>)

\* C7: after find_mlir_fused_ops has rewritten, if the GEMM or a reshape of
\* the chain had several consumers, the region returns the GEMM and then the
\* pointwise result, the macro-node is a tuple of two, the pointwise
\* instruction is the element 1 of it, every other consumer of the GEMM reads
\* an element 0 of it and the GEMM has no consumers; otherwise the region
\* returns the pointwise result alone and the macro-node is not a tuple.
C7_MultiConsumerGemm ==
  Rewrote("find_mlir_fused_ops") =>
    IF SeveralConsumers
    THEN MultiConsumerShape(last.matched, prog.ins[last.matched].inputs[1])
    ELSE SingleConsumerShape(last.matched)

\* a rewrite where the GEMM has one consumer, a reshape, and the reshape two
C7_Witness ==
  /\ Rewrote("find_mlir_fused_ops")
  /\ Len(last.chain) > 1
  /\ Cardinality(outputs(last.before, last.gemm)) = 1
  /\ SeveralConsumers
  /\ IsElement(prog, last.matched, 1, prog.ins[last.matched].inputs[1])

\* the macro-nodes of the module
MacroNodes == {i \in Ids(prog) : prog.ins[i].op.name = "gpu::mlir_op"}

\* an operation of the region r satisfies one of the two legality tables
InTables(r, i) ==
  \/ is_pointwise_op_supported_by_mlir(TableIns(r, i))
  \/ is_reduce_op_supported_by_mlir(TableIns(r, i))

UntypedAttention(n) ==
  /\ origin[n] \in {"find_mlir_standalone_attention_op", "find_mlir_attention_fused_ops"}
  /\ \E k \in 1..Len(prog.modules[n]) :
       /\ prog.modules[n][k].op.name = "@param"
       /\ prog.modules[n][k].shape.type \notin allowed_types

C9_Idempotence ==
  run = 2 =>
    /\ last.rule = "none"
    /\ Done => prog = first

\* the macro-node of the rewrite
Macro == last.macro

\* the region of the macro-node of the rewrite
MacroRegion == prog.modules[prog.ins[last.macro].mod]

\* a rule that absorbs the input chains of the matched GEMM or convolution
RewroteGemm == Rewrote("find_mlir_standalone_op") \/ Rewrote("find_mlir_fused_ops")

\* the inputs of the matched GEMM or convolution, before the rewrite
GemmInputs == last.before.ins[last.gemm].inputs

\* the instruction is an input of the macro-node, as it is or made contiguous
FeedsMacro(i) ==
  \E k \in 1..Len(prog.ins[Macro].inputs) :
    \/ prog.ins[Macro].inputs[k] = i
    \/ /\ prog.ins[prog.ins[Macro].inputs[k]].op.name = "contiguous"
       /\ prog.ins[prog.ins[Macro].inputs[k]].inputs = <<i>>

RegionHas(r, name) == \E k \in 1..Len(r) : r[k].op.name = name

\* C14 as stated: the walk from an input of the GEMM or convolution stops at
\* a slice: the slice is an input of the macro-node and is not in the region.
C14_SliceStopsWalk ==
  RewroteGemm =>
    \A k \in 1..Len(GemmInputs) :
      last.before.ins[GemmInputs[k]].op.name = "slice" =>
        /\ FeedsMacro(GemmInputs[k])
        /\ ~RegionHas(MacroRegion, "slice")

\* the walk up from i through the instructions of the given names
RECURSIVE WalkUp(_, _, _)
WalkUp(m, i, names) ==
  IF m.ins[i].op.name \in names THEN WalkUp(m, m.ins[i].inputs[1], names) ELSE i

SliceAndReshapes ==
  {"slice", "transpose", "broadcast", "multibroadcast", "contiguous", "reshape",
   "squeeze", "flatten", "unsqueeze"}

\* C14, amended: the walk from an input of the GEMM or convolution passes
\* through slice as through the other reshape-class instructions: what is
\* above the chain is the input of the macro-node, and a slice that feeds the
\* GEMM is in the region and is not an input of the macro-node.
C14_SliceAbsorbed ==
  RewroteGemm =>
    \A k \in 1..Len(GemmInputs) :
      /\ FeedsMacro(WalkUp(last.before, GemmInputs[k], SliceAndReshapes))
      /\ last.before.ins[GemmInputs[k]].op.name = "slice" =>
           /\ RegionHas(MacroRegion, "slice")
           /\ ~FeedsMacro(GemmInputs[k])

\* a GEMM on a slice has been rewritten on its own
C14_Witness ==
  /\ Rewrote("find_mlir_standalone_op")
  /\ last.before.ins[GemmInputs[1]].op.name = "slice"
  /\ RegionHas(MacroRegion, "slice")

StandaloneOperandTypes == {"float_type", "half_type", "int8_type", "fp8e4m3fnuz_type"}

\* the number of instructions from i up to what is above its chain
RECURSIVE ChainLength(_, _)
ChainLength(m, i) ==
  IF m.ins[i].op.name \in SliceAndReshapes
  THEN 1 + ChainLength(m, m.ins[i].inputs[1]) ELSE 0

RECURSIVE SumOf(_)
SumOf(s) == IF s = << >> THEN 0 ELSE Head(s) + SumOf(Tail(s))

\* the region r is parameters and reshapes, as many as the chains of the
\* inputs have, then the anchor, then the @return of the anchor
ChainsThenAnchor(r, anchor) ==
  /\ Len(r) = 2 + Len(GemmInputs)
               + SumOf([k \in 1..Len(GemmInputs) |-> ChainLength(last.before, GemmInputs[k])])
  /\ \A k \in 1..(Len(r) - 2) : r[k].op.name \in {"@param"} \cup SliceAndReshapes
  /\ Cardinality({k \in 1..Len(r) : r[k].op.name = "@param"}) = Len(GemmInputs)
  /\ r[Len(r) - 1].op = anchor
  /\ r[Len(r)].op.name = "@return"
  /\ r[Len(r)].inputs = <<r[Len(r) - 1].id>>

\* what a rewrite of find_mlir_standalone_op leaves
StandaloneShape ==
  /\ Rewrote("find_mlir_standalone_op")
  /\ \A k \in 1..Len(GemmInputs) :
       last.before.ins[GemmInputs[k]].shape.type \in StandaloneOperandTypes
  /\ ChainsThenAnchor(MacroRegion, last.before.ins[last.gemm].op)
  /\ Macro = last.gemm
  /\ prog.ins[last.gemm].op.name = "gpu::mlir_op"
  /\ prog.ins[last.gemm].op.op = last.before.ins[last.gemm].op
  /\ FilterSeq(prog.order, Ids(last.before)) = last.before.order
  /\ \A i \in Ids(prog) \ Ids(last.before) : prog.ins[i].op.name = "contiguous"
  /\ DOMAIN prog.modules \ DOMAIN last.before.modules = {prog.ins[last.gemm].mod}

\* C15: while the standalone rules run, the module changes only by a rewrite
\* of a GEMM or convolution whose operands all have the type float32, float16,
\* int8 or 8-bit float; a match with an operand of another type makes no
\* region and changes nothing.  The rewrite makes one region, which holds the
\* absorbed input chains, then the anchor, and returns the anchor, and the
\* matched instruction becomes the macro-node, its anchor descriptor the
\* operator the instruction had.
C15_StandaloneOperandTypes ==
  [][(pc = "standalone" /\ prog' # prog) => StandaloneShape']_vars

\* the standalone rules have finished and left a GEMM on operands of the type
\* double, which their matcher matches, as it was
C15_Witness ==
  /\ pc = "dce"
  /\ last.rule = "none"
  /\ \E i \in Ids(prog) :
       /\ is_mlir_dot(StandaloneModes(cfg).dot_mode, GemmIns(prog, i))
       /\ prog.ins[prog.ins[i].inputs[1]].shape.type = "double_type"

\* a rule has rewritten and the macro-node has its shape
RewroteAny == last.rule # "none" /\ ~last.throws

\* the instruction did not exist before the rewrite
IsNew(i) == i \notin Ids(last.before)

Dense(sh) == packed(sh) \/ broadcasted(sh)

\* the input the macro-node had before it was made contiguous
Uncontiguous(i) == IF IsNew(i) THEN prog.ins[i].inputs[1] ELSE i

\* the inputs the rule collected for the macro-node, from the module before
\* the rewrite: for find_mlir_fused_ops the inputs of the pointwise
\* instruction but x, then what is above the chains of the inputs of the GEMM
CollectedFused ==
  Without(last.before.ins[last.matched].inputs, last.chain[1])
    \o [k \in 1..Len(GemmInputs) |-> WalkUp(last.before, GemmInputs[k], SliceAndReshapes)]

\* for find_mlir_standalone_op what is above the chains of the inputs
CollectedStandalone ==
  [k \in 1..Len(GemmInputs) |-> WalkUp(last.before, GemmInputs[k], SliceAndReshapes)]

\* C16: after a rewrite of any rule, an input of the macro-node is either an
\* instruction that was there and is packed or broadcasted, or a new
\* contiguous instruction put right after an instruction that was there and
\* is neither; no other contiguous instruction is made; the inputs, the
\* contiguous ones taken back to what they read, are what the rule
\* collected, in its order; so every input is packed or broadcasted, and a
\* rewrite of find_mlir_fused_ops that collected an input that is neither
\* does not throw.
C16_ContiguousInputs ==
  /\ (last.rule = "find_mlir_fused_ops"
       /\ \E k \in 1..Len(CollectedFused) :
            ~Dense(last.before.ins[CollectedFused[k]].shape)) => ~last.throws
  /\ RewroteAny =>
    /\ \A k \in 1..Len(prog.ins[Macro].inputs) :
         /\ Dense(prog.ins[prog.ins[Macro].inputs[k]].shape)
         /\ IF IsNew(prog.ins[Macro].inputs[k])
            THEN /\ prog.ins[prog.ins[Macro].inputs[k]].op.name = "contiguous"
                 /\ Len(prog.ins[prog.ins[Macro].inputs[k]].inputs) = 1
                 /\ ~IsNew(Uncontiguous(prog.ins[Macro].inputs[k]))
                 /\ ~Dense(last.before.ins[Uncontiguous(prog.ins[Macro].inputs[k])].shape)
                 /\ PosOf(prog, prog.ins[Macro].inputs[k])
                      = PosOf(prog, Uncontiguous(prog.ins[Macro].inputs[k])) + 1
            ELSE Dense(last.before.ins[prog.ins[Macro].inputs[k]].shape)
    /\ \A i \in Ids(prog) \ Ids(last.before) :
         prog.ins[i].op.name = "contiguous" => i \in SeqRange(prog.ins[Macro].inputs)
    /\ Rewrote("find_mlir_fused_ops") =>
         [k \in 1..Len(prog.ins[Macro].inputs) |-> Uncontiguous(prog.ins[Macro].inputs[k])]
           = CollectedFused
    /\ Rewrote("find_mlir_standalone_op") =>
         [k \in 1..Len(prog.ins[Macro].inputs) |-> Uncontiguous(prog.ins[Macro].inputs[k])]
           = CollectedStandalone

\* a rewrite that made an input contiguous and passed another unchanged
C16_Witness ==
  /\ Rewrote("find_mlir_fused_ops")
  /\ \E k \in 1..Len(prog.ins[Macro].inputs) : IsNew(prog.ins[Macro].inputs[k])
  /\ \E k \in 1..Len(prog.ins[Macro].inputs) : ~IsNew(prog.ins[Macro].inputs[k])

\* C17: every rule makes its macro-node on one sub-region and at least two
\* inputs, so the shape computation of the macro-node does not throw; the
\* macro-node has the one result shape of its region when the region returns
\* one value and the tuple of the result shapes when it returns several.
C17_MacroNodePrecondition ==
  last.rule # "none" =>
    /\ ~last.throws
    /\ pc # "error"
    /\ Len(prog.ins[Macro].inputs) >= 2
    /\ prog.ins[Macro].mod \in DOMAIN prog.modules
    /\ prog.ins[Macro].shape =
         IF Len(ReturnIds(MacroRegion)) = 1
         THEN At(MacroRegion, ReturnIds(MacroRegion)[1]).shape
         ELSE TupleShape([k \in 1..Len(ReturnIds(MacroRegion)) |->
                            At(MacroRegion, ReturnIds(MacroRegion)[k]).shape])

\* the same element type and dimensions; of tuples, element by element
SameTypeAndLens(a, b) ==
  /\ a.type = b.type
  /\ a.lens = b.lens
  /\ Len(a.subs) = Len(b.subs)
  /\ \A k \in 1..Len(a.subs) :
       a.subs[k].type = b.subs[k].type /\ a.subs[k].lens = b.subs[k].lens

\* C18: after a rewrite of any rule, every instruction that was there has the
\* element type and the dimensions it had, the one that became the
\* macro-node or an element of it included, and a new get_tuple_elem, which
\* replaces the GEMM or the macro-node with several consumers, has the
\* element type and the dimensions of what it replaces.
C18_ShapePreservation ==
  RewroteAny =>
    /\ \A i \in Ids(last.before) \cap Ids(prog) :
         SameTypeAndLens(prog.ins[i].shape, last.before.ins[i].shape)
    /\ \A i \in Ids(prog) \ Ids(last.before) :
         prog.ins[i].op.name = "get_tuple_elem" =>
           SameTypeAndLens(prog.ins[i].shape, last.before.ins[last.gemm].shape)

\* a rewrite into a tuple whose elements differ in their dimensions
C18_Witness ==
  /\ Rewrote("find_mlir_fused_ops")
  /\ last.multi
  /\ prog.ins[Macro].shape.type = "tuple_type"
  /\ prog.ins[Macro].shape.subs[1].lens # prog.ins[Macro].shape.subs[2].lens
  /\ prog.ins[last.matched].op.name = "get_tuple_elem"

\* in the module m, the pointwise instruction pw reads the unsqueeze x of a
\* squeeze of a GEMM, and each of the three has one consumer
SqueezeUnsqueeze(m, pw, x) ==
  /\ m.ins[pw].op.name = "pointwise"
  /\ x \in SeqRange(m.ins[pw].inputs)
  /\ m.ins[x].op.name = "unsqueeze"
  /\ m.ins[m.ins[x].inputs[1]].op.name = "squeeze"
  /\ m.ins[m.ins[m.ins[x].inputs[1]].inputs[1]].op.name \in {"dot", "quant_dot"}
  /\ outputs(m, x) = {pw}
  /\ outputs(m, m.ins[x].inputs[1]) = {x}
  /\ outputs(m, m.ins[m.ins[x].inputs[1]].inputs[1]) = {m.ins[x].inputs[1]}

\* the pointwise instruction and the GEMM of the chain are eligible
EligibleChain(m, pw, x) ==
  /\ \A k \in 1..Len(m.modules[m.ins[pw].mod]) :
       is_pointwise_op_supported_by_mlir(
         TableIns(m.modules[m.ins[pw].mod], m.modules[m.ins[pw].mod][k]))
  /\ is_mlir_dot(FusedModes(cfg).dot_mode,
                 GemmIns(m, m.ins[m.ins[x].inputs[1]].inputs[1]))

\* the module of the pointwise instruction that was matched
MatchedModule == last.before.modules[last.before.ins[last.matched].mod]

\* the region holds the squeeze and the unsqueeze, as reshapes to their
\* dimensions, between the anchor and the pointwise body
ReshapePairInRegion(r, x) ==
  \E k1 \in 1..Len(r), k2 \in 1..Len(r), k3 \in 1..Len(r) :
    /\ r[k1].op = Op("reshape", last.before.ins[last.before.ins[x].inputs[1]].shape.lens)
    /\ Len(r[k1].inputs) = 1
    /\ At(r, r[k1].inputs[1]).op = last.before.ins[last.gemm].op
    /\ r[k2].op = Op("reshape", last.before.ins[x].shape.lens)
    /\ r[k2].inputs = <<r[k1].id>>
    /\ r[k2].id \in SeqRange(r[k3].inputs)
    /\ r[k3].op.name \notin SliceAndReshapes \cup {"@return"}

\* what a direct fusion puts in the region: the module of the pointwise
\* instruction with its literals broadcast, the parameter of x taken by the
\* anchor, and the parameters of the GEMM
DirectLength == Len(MatchedModule) + Len(GemmInputs)
                  + Cardinality({k \in 1..Len(MatchedModule) :
                                   MatchedModule[k].op.name = "@literal"})

\* C19: after the pointwise-after-GEMM rule has run, no eligible pointwise
\* instruction is left on the unsqueeze of a squeeze of an eligible GEMM with
\* single consumers; its rewrite replaces the pointwise instruction by one
\* macro-node that is not a tuple, whose inputs are the other inputs of the
\* pointwise instruction and then the inputs of the GEMM, whose region is
\* that of a direct fusion with the two reshapes after the anchor, and
\* neither the squeeze nor the unsqueeze is left between the macro-node and
\* what it feeds.
C19_ReshapeTransparency ==
  /\ VecContains(trace, "fused_ops") =>
       \A pw \in Ids(prog) : \A x \in Ids(prog) :
         ~(SqueezeUnsqueeze(prog, pw, x) /\ EligibleChain(prog, pw, x))
  /\ (Rewrote("find_mlir_fused_ops")
        /\ SqueezeUnsqueeze(last.before, last.matched, last.chain[1])) =>
       /\ SingleConsumerShape(last.matched)
       /\ [k \in 1..Len(prog.ins[Macro].inputs) |-> Uncontiguous(prog.ins[Macro].inputs[k])]
            = Without(last.before.ins[last.matched].inputs, last.chain[1]) \o GemmInputs
       /\ ReshapePairInRegion(MacroRegion, last.chain[1])
       /\ Len(MacroRegion) = DirectLength + 2
       /\ ~RegionHas(MacroRegion, "squeeze") /\ ~RegionHas(MacroRegion, "unsqueeze")
       /\ outputs(prog, last.matched) = outputs(last.before, last.matched)
       /\ outputs(prog, last.chain[1]) = {}

\* a GEMM, a squeeze, an unsqueeze and a pointwise instruction of two inputs
\* have become one macro-node
C19_Witness ==
  /\ Rewrote("find_mlir_fused_ops")
  /\ SqueezeUnsqueeze(last.before, last.matched, last.chain[1])
  /\ Len(last.before.ins[last.matched].inputs) = 2
  /\ Len(prog.ins[Macro].inputs) = 3
  /\ ReshapePairInRegion(MacroRegion, last.chain[1])

\* the attention instruction that was matched and its inputs
AttentionInputs == last.before.ins[last.gemm].inputs

RewroteAttention ==
  Rewrote("find_mlir_standalone_attention_op") \/ Rewrote("find_mlir_attention_fused_ops")

\* the walk up the region r from id through the reshape-class instructions
RECURSIVE WalkUpRegion(_, _)
WalkUpRegion(r, id) ==
  IF At(r, id).op.name \in SliceAndReshapes
  THEN WalkUpRegion(r, At(r, id).inputs[1]) ELSE id

IsRegionParam(r, id) == At(r, id).op.name = "@param"

\* d0 is a dot on two parameters, each behind reshape-class instructions only
FirstGemmIn(r, d0) ==
  /\ At(r, d0).op = Op("dot", << >>)
  /\ Len(At(r, d0).inputs) = 2
  /\ \A k \in 1..2 : IsRegionParam(r, WalkUpRegion(r, At(r, d0).inputs[k]))

\* s is the product of a dot with the literal scale broadcast to its lens
ScaledIn(r, s) ==
  /\ At(r, s).op = Op("mul", << >>)
  /\ Len(At(r, s).inputs) = 2
  /\ FirstGemmIn(r, At(r, s).inputs[1])
  /\ At(r, At(r, s).inputs[2]).op
       = Op("multibroadcast", At(r, At(r, s).inputs[1]).shape.lens)
  /\ At(r, At(r, At(r, s).inputs[2]).inputs[1]).op
       = Op("@literal", last.before.ins[last.gemm].op.attr)

\* b is what the softmax reads when the attention has n inputs
BiasedIn(r, b, n) ==
  IF n = 4
  THEN /\ At(r, b).op = Op("add", << >>)
       /\ Len(At(r, b).inputs) = 2
       /\ ScaledIn(r, At(r, b).inputs[1])
       /\ IsRegionParam(r, At(r, b).inputs[2])
  ELSE IF n = 5
  THEN /\ At(r, b).op = Op("where", << >>)
       /\ Len(At(r, b).inputs) = 3
       /\ IsRegionParam(r, At(r, b).inputs[1])
       /\ ScaledIn(r, At(r, b).inputs[2])
       /\ IsRegionParam(r, At(r, b).inputs[3])
  ELSE ScaledIn(r, b)

\* d1 is dot(softmax(S, last axis), V), V a parameter behind reshape-class
\* instructions only
SecondGemmIn(r, d1, n) ==
  /\ At(r, d1).op = Op("dot", << >>)
  /\ Len(At(r, d1).inputs) = 2
  /\ At(r, At(r, d1).inputs[1]).op.name = "softmax"
  /\ At(r, At(r, d1).inputs[1]).op.attr
       = <<Len(At(r, At(r, At(r, d1).inputs[1]).inputs[1]).shape.lens) - 1>>
  /\ BiasedIn(r, At(r, At(r, d1).inputs[1]).inputs[1], n)
  /\ IsRegionParam(r, WalkUpRegion(r, At(r, d1).inputs[2]))

\* the region returns the second dot, or what the body of the trailing
\* pointwise instruction makes of it
AttentionRegionShape(r, n, trailing) ==
  \E k \in 1..Len(r) :
    /\ SecondGemmIn(r, r[k].id, n)
    /\ Cardinality({j \in 1..Len(r) : r[j].op = Op("dot", << >>)}) = 2
    /\ RegionHas(r, "add") = (n = 4 \/ (trailing /\ PointwiseResultOp.name = "add"))
    /\ RegionHas(r, "where") = (n = 5)
    /\ IF trailing
       THEN /\ ReturnsOps(r, <<PointwiseResultOp>>)
            /\ \E j \in 1..Len(r) :
                 /\ r[k].id \in SeqRange(r[j].inputs)
                 /\ r[j].op = PointwiseResultOp
       ELSE ReturnIds(r) = <<r[k].id>>

\* the inputs of the macro-node of an attention of n inputs
AttentionMacroInputs(n, trailing) ==
  <<WalkUp(last.before, AttentionInputs[1], SliceAndReshapes),
    WalkUp(last.before, AttentionInputs[2], SliceAndReshapes)>>
  \o SubSeq(AttentionInputs, 3, n - 1)
  \o <<WalkUp(last.before, AttentionInputs[n], SliceAndReshapes)>>
  \o (IF trailing THEN Without(last.before.ins[last.matched].inputs, last.gemm)
      ELSE << >>)

\* a supported pointwise instruction of the program that reads an attention
ReadsAttention(m, i) ==
  /\ m.ins[i].op.name = "pointwise"
  /\ \A k \in 1..Len(m.modules[m.ins[i].mod]) :
       is_pointwise_op_supported_by_mlir(
         TableIns(m.modules[m.ins[i].mod], m.modules[m.ins[i].mod][k]))
  /\ \E j \in SeqRange(m.ins[i].inputs) :
       m.ins[j].op.name = "gpu::pre_gemm_softmax_gemm"

\* C20: the region of an attention rewrite computes dot(softmax(S, last
\* axis), V), S the first dot times the broadcast literal scale, behind
\* add(S, bias) for 4 inputs and where(cond, S, const) for 5; the inputs of
\* the macro-node are what is above Q and K, the bias or the condition and
\* the constant, what is above V, and the other inputs of the trailing
\* pointwise instruction; the trailing pointwise instruction is what is
\* replaced when there is one, the attention instruction otherwise.
C20_AttentionArity ==
  /\ RewroteAttention =>
       /\ Len(AttentionInputs) \in 3..5
       /\ prog.ins[Macro].op = MlirOp(Op("dot", << >>))
       /\ AttentionRegionShape(MacroRegion, Len(AttentionInputs),
                               last.rule = "find_mlir_attention_fused_ops")
       /\ [k \in 1..Len(prog.ins[Macro].inputs) |-> Uncontiguous(prog.ins[Macro].inputs[k])]
            = AttentionMacroInputs(Len(AttentionInputs),
                                   last.rule = "find_mlir_attention_fused_ops")
  /\ Rewrote("find_mlir_standalone_attention_op") =>
       /\ Macro = last.gemm
       /\ last.before.ins[Macro].op.name = "gpu::pre_gemm_softmax_gemm"
       /\ \A i \in Ids(last.before) : ~ReadsAttention(last.before, i)
  /\ Rewrote("find_mlir_attention_fused_ops") =>
       /\ ReadsAttention(last.before, Macro)
       /\ last.gemm \in SeqRange(last.before.ins[Macro].inputs)
       /\ prog.ins[last.gemm] = last.before.ins[last.gemm]
  /\ VecContains(trace, "attention_fused") =>
       \A i \in Ids(prog) : ~ReadsAttention(prog, i)

\* an attention of 5 inputs with a trailing pointwise instruction of two
\* inputs has become a macro-node of six inputs
C20_Witness ==
  /\ Rewrote("find_mlir_attention_fused_ops")
  /\ Len(AttentionInputs) = 5
  /\ Len(last.before.ins[last.matched].inputs) = 2
  /\ Len(prog.ins[Macro].inputs) = 6
  /\ RegionHas(MacroRegion, "where")

\* every instruction of the module m comes after its inputs
OrderLegal(m) ==
  \A i \in Ids(m) : \A j \in SeqRange(m.ins[i].inputs) :
    j \in Ids(m) /\ PosOf(m, j) < PosOf(m, i)

\* every instruction of the region r comes after its inputs
RegionOrderLegal(r) ==
  \A k \in 1..Len(r) : \A x \in SeqRange(r[k].inputs) :
    \E j \in 1..(k - 1) : r[j].id = x

\* C21: after every rewrite of every rule, every instruction of the program
\* and of every sub-module comes after its inputs; a consumer of the GEMM
\* that stood between the GEMM and the fused instruction is not before the
\* get_tuple_elem it now reads.
C21_OrderLegal ==
  /\ OrderLegal(prog)
  /\ \A n \in DOMAIN prog.modules : RegionOrderLegal(prog.modules[n])

\* the statements of the pass that are find_matches calls
RuleSteps ==
  {"attention_fused", "attention_standalone", "fused_ops", "standalone",
   "split_reduce", "pointwise_mlir"}

\* a macro-node of the program that has a supported pointwise input used once
HasInputPointwise(m, i) ==
  /\ m.ins[i].op.name = "gpu::mlir_op"
  /\ \E j \in SeqRange(m.ins[i].inputs) :
       /\ m.ins[j].op.name = "pointwise"
       /\ Cardinality(outputs(m, j)) = 1
       /\ \A k \in 1..Len(m.modules[m.ins[j].mod]) :
            is_pointwise_op_supported_by_mlir_for_input(
              TableIns(m.modules[m.ins[j].mod], m.modules[m.ins[j].mod][k]))

\* the rule of the statement s has something to rewrite in the program
Applicable(s) ==
  CASE s = "attention_fused" -> \E i \in Ids(prog) : ReadsAttention(prog, i)
    [] s = "attention_standalone" ->
         \E i \in Ids(prog) : prog.ins[i].op.name = "gpu::pre_gemm_softmax_gemm"
    [] s = "fused_ops" -> \E i \in Ids(prog) : FusedMatch(prog, cfg, i)
    [] s = "standalone" -> \E i \in Ids(prog) : StandaloneMatch(prog, cfg, i)
    [] s = "split_reduce" -> \E i \in Ids(prog) : ReduceGemm(prog, i) # 0
    [] s = "pointwise_mlir" -> \E i \in Ids(prog) : HasInputPointwise(prog, i)
    [] OTHER -> FALSE

SelfReferentAt(m, pw, x) ==
  /\ FusedMatches(m, FusedModes(cfg), pw)
  /\ x = FusedX(m, FusedModes(cfg), pw)
  /\ \E i \in SeqRange(m.ins[pw].inputs) \ {x} :
       WalkUp(m, x, SliceAndReshapes \ {"slice"}) \in LiveSet(m, {i}, {i})

SelfReferent(m, pw) == \E x \in Ids(m) : SelfReferentAt(m, pw, x)

\* C23: while find_mlir_fused_ops runs, a pointwise instruction one of whose
\* inputs, other than the matched input x, is reachable from the matched
\* GEMM or convolution is never the one rewritten and stays as it is; when
\* no other pointwise instruction matches, no sub-module is made, nothing is
\* inserted or moved and the program is unchanged.
C23_DiscardChangesNothing ==
  [][pc = "fused_ops" =>
       /\ prog' # prog => ~SelfReferent(prog, last'.matched)
       /\ \A pw \in Ids(prog) :
            SelfReferent(prog, pw) =>
              /\ pw \in Ids(prog')
              /\ prog'.ins[pw] = prog.ins[pw]
              /\ (\A q \in Ids(prog) \ {pw} : ~FusedMatches(prog, FusedModes(cfg), q))
                   => prog' = prog /\ origin' = origin]_vars

\* find_mlir_fused_ops has finished and left a pointwise instruction that
\* reads the GEMM through two of its inputs
C23_Witness ==
  /\ pc = "standalone"
  /\ run = 1
  /\ Last(trace) = "fused_ops"
  /\ \E pw \in Ids(prog) : SelfReferent(prog, pw) /\ prog.ins[pw].op.name = "pointwise"
  /\ \A n \in DOMAIN origin : origin[n] # "find_mlir_fused_ops"

\* the operation get_fusable_input_op_stream records for the instruction i
RecordedOp(i) ==
  IF i.op.name \in {"squeeze", "flatten", "unsqueeze"}
  THEN Op("reshape", i.shape.lens) ELSE i.op

\* from rid up the region r are the operations met from id up the module m,
\* in the same order, and above them the parameter pname with the shape of
\* the instruction above the chain, in standard layout
RECURSIVE ChainReapplied(_, _, _, _, _)
ChainReapplied(r, rid, m, id, pname) ==
  IF m.ins[id].op.name \in SliceAndReshapes
  THEN /\ At(r, rid).op = RecordedOp(m.ins[id])
       /\ Len(At(r, rid).inputs) = 1
       /\ ChainReapplied(r, At(r, rid).inputs[1], m, m.ins[id].inputs[1], pname)
  ELSE /\ At(r, rid).op = ParamOp(pname)
       /\ At(r, rid).shape = as_standard(m.ins[id].shape)

\* the parameters of the region r whose name starts with y
YParams(r) ==
  {k \in 1..Len(r) : r[k].op.name = "@param" /\ r[k].op.parameter[1] = "y"}

\* a is the anchor of the region, on the re-applied chains of the inputs
AnchorOnChains(r, a) ==
  /\ At(r, a).op = last.before.ins[last.gemm].op
  /\ Len(At(r, a).inputs) = Len(GemmInputs)
  /\ \A k \in 1..Len(GemmInputs) :
       ChainReapplied(r, At(r, a).inputs[k], last.before, GemmInputs[k],
                      param_name(k - 1, "y"))

\* C24: in the region of a rewrite of a GEMM or convolution, every input of
\* the anchor, in order, has one parameter y0, y1, ... of the standard shape
\* of the instruction above its chain, and the operations of the chain are
\* applied to it in the order of the dataflow, a squeeze, flatten or
\* unsqueeze as a reshape to the dimensions of its result; the last inputs
\* of the macro-node are the instructions above the chains, in the order of
\* the inputs of the anchor.
C24_InputChainReapplied ==
  RewroteGemm =>
    /\ \E k \in 1..Len(MacroRegion) : AnchorOnChains(MacroRegion, MacroRegion[k].id)
    /\ Cardinality(YParams(MacroRegion)) = Len(GemmInputs)
    /\ \A k \in YParams(MacroRegion) : \A j \in YParams(MacroRegion) :
         MacroRegion[k].op = MacroRegion[j].op => k = j
    /\ Len(prog.ins[Macro].inputs) >= Len(GemmInputs)
    /\ \A k \in 1..Len(GemmInputs) :
         Uncontiguous(prog.ins[Macro].inputs[
             Len(prog.ins[Macro].inputs) - Len(GemmInputs) + k])
           = WalkUp(last.before, GemmInputs[k], SliceAndReshapes)

\* the first input of a GEMM was the unsqueeze of a squeeze of a parameter:
\* the region has the two reshapes and the macro-node reads the parameter
C24_Witness ==
  /\ Rewrote("find_mlir_standalone_op")
  /\ last.before.ins[GemmInputs[1]].op.name = "unsqueeze"
  /\ last.before.ins[last.before.ins[GemmInputs[1]].inputs[1]].op.name = "squeeze"
  /\ Cardinality({k \in 1..Len(MacroRegion) : MacroRegion[k].op.name = "reshape"}) = 2
  /\ last.before.ins[prog.ins[Macro].inputs[1]].op.name = "@param"

\* every instruction of the region r satisfies the pointwise legality table
AllInPointwiseTable(r) ==
  \A k \in 1..Len(r) : is_pointwise_op_supported_by_mlir(TableIns(r, r[k]))

\* what mlir_split_reduce is to allow in the module of a reduction
ReduceRegionAllowed(m, r, i) ==
  \/ i.op.name \in SliceAndReshapes
  \/ i.op.name \in {"@param", "@literal", "@return"}
  \/ i.op.name \in ReduceOps /\ is_reduce_op_supported_by_mlir(TableIns(r, i))
  \/ i.op.name = "pointwise" /\ AllInPointwiseTable(m.modules[i.mod])

\* a pointwise instruction whose module is in the table and that reads a
\* GEMM or convolution the modes accept and nothing else reads
PointwiseOnGemm(m, pw) ==
  /\ m.ins[pw].op.name = "pointwise"
  /\ AllInPointwiseTable(m.modules[m.ins[pw].mod])
  /\ \E g \in SeqRange(m.ins[pw].inputs) :
       /\ IsGemmBasedOp(m, FusedModes(cfg), g)
       /\ outputs(m, g) = {pw}

\* C25: a rule behind mlir_pointwise rewrites an instruction only if it is a
\* pointwise instruction whose module has only instructions of the pointwise
\* table, and leaves none that is one on an accepted GEMM or convolution;
\* find_mlir_split_reduce rewrites an instruction only if it is a
\* split_fused_reduce whose module has only reshape-class instructions,
\* @param, @literal, @return, reductions of the reduction table and
\* pointwise instructions whose modules have only instructions of the
\* pointwise table.
C25_RegionScans ==
  /\ (Rewrote("find_mlir_fused_ops") \/ Rewrote("find_mlir_attention_fused_ops")) =>
       /\ last.before.ins[last.matched].op.name = "pointwise"
       /\ AllInPointwiseTable(last.before.modules[last.before.ins[last.matched].mod])
  /\ VecContains(trace, "fused_ops") =>
       \A pw \in Ids(prog) : ~PointwiseOnGemm(prog, pw)
  /\ last.rule = "find_mlir_split_reduce" =>
       /\ last.before.ins[last.matched].op.name = "split_fused_reduce"
       /\ \A k \in 1..Len(last.before.modules[last.before.ins[last.matched].mod]) :
            ReduceRegionAllowed(last.before,
              last.before.modules[last.before.ins[last.matched].mod],
              last.before.modules[last.before.ins[last.matched].mod][k])

\* find_mlir_split_reduce has rewritten a reduction whose module holds a
\* pointwise instruction
C25_Witness ==
  /\ Rewrote("find_mlir_split_reduce")
  /\ \E k \in 1..Len(last.before.modules[last.before.ins[last.matched].mod]) :
       last.before.modules[last.before.ins[last.matched].mod][k].op.name = "pointwise"

\* C26: find_mlir_split_reduce rewrites no split_fused_reduce whose module
\* holds a slice, so no region it makes holds a slice of the module of a
\* reduction.
C26_NoSliceInReduction ==
  last.rule = "find_mlir_split_reduce" =>
    ~RegionHas(last.before.modules[last.before.ins[last.matched].mod], "slice")

\* the module of the reduction that was matched and the module of the
\* macro-node it read
ReduceModuleBefore == last.before.modules[last.before.ins[last.matched].mod]

GemmModuleBefore == last.before.modules[last.before.ins[last.gemm].mod]

\* the value new of the region r stands for the value old of the module of
\* the reduction: the same operation, or the body of a pointwise instruction
ReturnedAs(r, new, old) ==
  /\ At(r, new).shape.lens = At(ReduceModuleBefore, old).shape.lens
  /\ IF At(ReduceModuleBefore, old).op.name = "pointwise"
     THEN At(r, new).op.name \notin ReduceOps \cup {"pointwise", "dot", "@param"}
     ELSE At(r, new).op = At(ReduceModuleBefore, old).op

\* the first values the region returns are those of the reduction
ReturnsReduction(r) ==
  /\ Len(ReturnIds(r)) >= Len(ReturnIds(ReduceModuleBefore))
  /\ \A k \in 1..Len(ReturnIds(ReduceModuleBefore)) :
       ReturnedAs(r, ReturnIds(r)[k], ReturnIds(ReduceModuleBefore)[k])

\* e is the get_tuple_elem of the last value of the new macro-node
LastElement(e) ==
  /\ e \in Ids(prog) \ Ids(last.before)
  /\ prog.ins[e].op = Op("get_tuple_elem", <<Len(ReturnIds(ReduceModuleBefore))>>)
  /\ prog.ins[e].inputs = <<Macro>>
  /\ prog.ins[e].shape = last.before.ins[last.gemm].shape

\* the inputs of c, with e where the old macro-node was
RedirectedTo(c, e) ==
  prog.ins[c].inputs =
    [k \in 1..Len(last.before.ins[c].inputs) |->
       IF last.before.ins[c].inputs[k] = last.gemm THEN e
       ELSE last.before.ins[c].inputs[k]]

SplitReduceMulti ==
  /\ Macro \in Ids(prog) \ Ids(last.before)
  /\ ReturnsReduction(MacroRegion)
  /\ Len(ReturnIds(MacroRegion)) = Len(ReturnIds(ReduceModuleBefore)) + 1
  /\ Last(ReturnIds(MacroRegion)) \notin
       SeqRange(SubSeq(ReturnIds(MacroRegion), 1, Len(ReturnIds(MacroRegion)) - 1))
  /\ At(MacroRegion, Last(ReturnIds(MacroRegion))).op
       = At(GemmModuleBefore, ReturnIds(GemmModuleBefore)[1]).op
  /\ \E e \in Ids(prog) :
       /\ LastElement(e)
       /\ \A c \in outputs(last.before, last.gemm) \ {last.matched} :
            prog.ins[c].op = last.before.ins[c].op /\ RedirectedTo(c, e)
  /\ outputs(prog, last.gemm) = {}
  /\ \A c \in outputs(last.before, last.matched) :
       /\ prog.ins[c].op = last.before.ins[c].op
       /\ prog.ins[c].op.name = "get_tuple_elem"
       /\ prog.ins[c].inputs = <<Macro>>
       /\ prog.ins[c].shape = last.before.ins[c].shape

SplitReduceSingle ==
  /\ Macro = last.matched
  /\ ReturnsReduction(MacroRegion)
  /\ Len(ReturnIds(MacroRegion)) = Len(ReturnIds(ReduceModuleBefore))
  /\ Ids(prog) \ Ids(last.before) \subseteq SeqRange(prog.ins[Macro].inputs)
  /\ \A c \in outputs(last.before, last.matched) :
       prog.ins[c] = last.before.ins[c]

AnchorNames == {"dot", "quant_dot", "convolution", "quant_convolution"}

\* C28: in every module the pass reaches, in either invocation, no
\* sub-module of a macro-node holds a macro-node, and a macro-node that
\* find_pointwise_mlir or find_mlir_split_reduce makes of another has the
\* anchor operation of that one.
C28_NoNestedMacroNodes ==
  /\ \A i \in MacroNodes : ~RegionHas(prog.modules[prog.ins[i].mod], "gpu::mlir_op")
  /\ \A i \in MacroNodes : prog.ins[i].op.op.name # "gpu::mlir_op"
  /\ (Rewrote("find_pointwise_mlir") \/ Rewrote("find_mlir_split_reduce")) =>
       prog.ins[Macro].op = last.before.ins[last.gemm].op

\* the region r ends in its only @return
RegionComplete(r) ==
  /\ Len(r) > 0
  /\ Last(r).op.name = "@return"
  /\ \A k \in 1..(Len(r) - 1) : r[k].op.name # "@return"

\* every instruction of the module m that has a sub-module has a complete one
ParentRegionsComplete(m) ==
  \A i \in Ids(m) :
    m.ins[i].mod # 0 =>
      m.ins[i].mod \in DOMAIN m.modules /\ RegionComplete(m.modules[m.ins[i].mod])

\* C29: at every statement of the apply of every rule, every instruction of
\* the program that has a sub-module has one that ends in its @return; the
\* instructions of the program change only after the new sub-module has got
\* its parameters, its body and its @return; and a find_matches call that
\* has nothing to rewrite changes nothing.
C29_AtomicApply ==
  [][/\ ParentRegionsComplete(prog)
     /\ ParentRegionsComplete(prog')
     /\ (pc \in RuleSteps /\ (prog'.ins # prog.ins \/ prog'.order # prog.order)) =>
          /\ InApply("returned")
          /\ RegionComplete(prog.modules[Len(prog.modules)])
          /\ \A i \in Ids(prog) : prog.ins[i].mod # Len(prog.modules)
     /\ (pc \in RuleSteps /\ Scanning /\ ~RuleMatches(pc, prog, cfg)) =>
          prog' = prog]_vars

\* the sub-module of a rewrite has its body and no @return yet, and no
\* instruction of the program refers to it
C29_Witness ==
  /\ InApply("built")
  /\ Len(prog.modules[Len(prog.modules)]) >= 3
  /\ ~RegionComplete(prog.modules[Len(prog.modules)])
  /\ \A i \in Ids(prog) : prog.ins[i].mod # Len(prog.modules)
  /\ ParentRegionsComplete(prog)

\* the operators a rule of the pass takes into a sub-module
ConsumedNames ==
  {"dot", "quant_dot", "convolution", "quant_convolution", "pointwise",
   "split_fused_reduce", "gpu::pre_gemm_softmax_gemm"}

\* the instructions of m that a rule can still take, those the @return
\* depends on counted twice
Pending(m) ==
  Cardinality({i \in Ids(m) : m.ins[i].op.name \in ConsumedNames})
  + Cardinality({i \in Live(m) : m.ins[i].op.name \in ConsumedNames})

\* the pass has returned or has thrown
Finished == pc \in {"done", "error"}

\* the length of the walk of get_fusable_input_op_stream up from every input
\* of the instruction i of m
WalkLengths(m, i) ==
  {Len(get_fusable_input_op_stream(m, m.ins[i].inputs[k], << >>).op_stream) :
     k \in 1..Len(m.ins[i].inputs)}

\* C30: every invocation of the pass comes to its end or throws; every
\* rewrite leaves fewer instructions that a rule can take than there were,
\* those on the way to the @return counted twice, so no rule is applied
\* without end; and the walk
\* up from an input of an instruction visits fewer instructions than the
\* module has.
C30_Termination ==
  /\ []<>Finished
  /\ [](RewroteAny => Pending(prog) < Pending(last.before))
  /\ [](\A i \in Ids(prog) : \A n \in WalkLengths(prog, i) : n < Cardinality(Ids(prog)))

\* the second invocation has returned, and the first made a rewrite after a
\* walk up over a squeeze and an unsqueeze
C30_Witness ==
  /\ pc = "done"
  /\ run = 2
  /\ \E r \in 1..Len(prog.modules) :
       Cardinality({k \in 1..Len(prog.modules[r]) :
                      prog.modules[r][k].op.name = "reshape"}) >= 2


(***************************************************************************)
(* The predicates on their own: a call is drawn from PredCalls and the      *)
(* predicate is applied to it.                                              *)
(***************************************************************************)
InitPred ==
  /\ call \in PredCalls
  /\ ret = << >>
  /\ PassIdle

CallIsMlirDot ==
  /\ call.fn = "is_mlir_dot"
  /\ Len(ret) = 0
  /\ ret' = <<is_mlir_dot(call.mode, call.ins)>>
  /\ UNCHANGED <<call, passvars>>

CallIsMlirConv ==
  /\ call.fn = "is_mlir_conv"
  /\ Len(ret) = 0
  /\ ret' = <<is_mlir_conv(call.mode, call.ins)>>
  /\ UNCHANGED <<call, passvars>>

CallGetMode ==
  /\ call.fn = "get_mode"
  /\ Len(ret) = 0
  /\ ret' = <<get_mode(call.env, call.device_name, call.option, call.m1, call.m2)>>
  /\ UNCHANGED <<call, passvars>>

CallIsPointwiseSupported ==
  /\ call.fn = "is_pointwise_op_supported_by_mlir"
  /\ Len(ret) = 0
  /\ ret' = <<is_pointwise_op_supported_by_mlir(call.ins)>>
  /\ UNCHANGED <<call, passvars>>

CallIsReduceSupported ==
  /\ call.fn = "is_reduce_op_supported_by_mlir"
  /\ Len(ret) = 0
  /\ ret' = <<is_reduce_op_supported_by_mlir(call.ins)>>
  /\ UNCHANGED <<call, passvars>>

NextPred ==
  \/ CallIsMlirDot
  \/ CallIsMlirConv
  \/ CallGetMode
  \/ CallIsPointwiseSupported
  \/ CallIsReduceSupported

SpecPred == InitPred /\ [][NextPred]_vars

\* the call has returned; ret holds its result
Returned == Len(ret) = 1

Result == ret[1]

(***************************************************************************)
(* Claims about the predicates, under SpecPred.                             *)
(***************************************************************************)
IsDotCall == call.fn = "is_mlir_dot"

DotK == Last(call.ins.a_lens)

C2_DotRejectsAndAccepts ==
  (Returned /\ IsDotCall)
    => /\ call.mode = "none" => Result = FALSE
       /\ call.ins.name \notin {"dot", "quant_dot"} => Result = FALSE
       /\ call.ins.type = "fp8e4m3fnuz_type" => Result = FALSE
       /\ (call.mode \in {"all", "int8"}
             /\ call.ins.name \in {"dot", "quant_dot"}
             /\ call.ins.type # "fp8e4m3fnuz_type") => Result = TRUE

C2_Witness ==
  /\ Returned /\ IsDotCall /\ call.mode = "all"
  /\ call.ins.name = "quant_dot" /\ call.ins.type = "int32_type"
  /\ DotK = 4096
  /\ Result = TRUE

IsConvCall == call.fn = "is_mlir_conv"

ConvNamed == call.ins.name \in {"convolution", "quant_convolution"}

ConvGroupedNot4D == Len(call.ins.lens) # 4 /\ call.ins.group > 1

Conv8Bit == call.ins.in_type \in {"int8_type", "fp8e4m3fnuz_type"}

\* the decision of the rules that follow the first four, for a kernel
ConvKernelRule(w, group) ==
  \/ group > 1
  \/ Len(w) # 4
  \/ (Len(w) = 4 /\ w[3] # w[4])
  \/ (Len(w) = 4 /\ w[3] = w[4] /\ w[4] % 3 # 0)

\* C3: is_mlir_conv decides in strict precedence: the mode none rejects; a
\* result rank other than 4 together with group > 1 rejects, even for an
\* 8-bit input type or the mode all; an int8 or 8-bit float input type
\* accepts; the mode all accepts; group > 1 accepts; a kernel rank other than
\* 4 accepts; unequal kernel dims[2] and dims[3] accept; otherwise the node
\* is accepted iff kernel dims[3] is not a multiple of 3.  Under the fast
\* mode an ungrouped float convolution with a square 4D kernel is rejected
\* for 3x3 and 6x6 and accepted for 1x1, 5x5 and 7x7.
C3_ConvPrecedence ==
  (Returned /\ IsConvCall)
    => /\ call.mode = "none" => Result = FALSE
       /\ ~ConvNamed => Result = FALSE
       /\ (call.mode # "none" /\ ConvNamed)
            => /\ ConvGroupedNot4D => Result = FALSE
               /\ (~ConvGroupedNot4D /\ Conv8Bit) => Result = TRUE
               /\ (~ConvGroupedNot4D /\ ~Conv8Bit /\ call.mode = "all")
                    => Result = TRUE
               /\ (~ConvGroupedNot4D /\ ~Conv8Bit /\ call.mode # "all")
                    => Result = ConvKernelRule(call.ins.w_lens, call.ins.group)
       /\ (call.mode = "fast" /\ call.ins.name = "convolution"
             /\ call.ins.group = 1 /\ call.ins.in_type = "float_type")
            => /\ call.ins.w_lens \in {<<2, 2, 3, 3>>, <<2, 2, 6, 6>>}
                    => Result = FALSE
               /\ call.ins.w_lens \in {<<2, 2, 1, 1>>, <<2, 2, 5, 5>>, <<2, 2, 7, 7>>}
                    => Result = TRUE

C3_Witness ==
  /\ Returned /\ IsConvCall /\ call.mode = "fast"
  /\ call.ins.name = "convolution" /\ call.ins.group = 1
  /\ call.ins.in_type = "float_type"
  /\ call.ins.w_lens = <<2, 2, 3, 3>>
  /\ Result = FALSE

IsModeCall == call.fn = "get_mode"

FusedClasses == {S_fused_convolution, S_fused_dot}

\* an entry of the list names the class: by the class's own name, or by
\* `fused` for the two fused classes
EntryNames(e, class) ==
  \/ e.name = class
  \/ (e.name = S_fused /\ class \in FusedClasses)

ForceExcluded(entries, class) ==
  \E k \in 1..Len(entries) :
    entries[k].neg \in {"!", "~"} /\ EntryNames(entries[k], class)

ForceIncluded(entries, class) ==
  \E k \in 1..Len(entries) :
    entries[k].neg = "" /\ EntryNames(entries[k], class)

NaviDevices == {S_gfx1100}

IsPointwiseCall == call.fn = "is_pointwise_op_supported_by_mlir"

\* C10 as stated: the pointwise legality predicate accepts @param, @literal
\* and @return for every result type, also outside {float32, float16, int8,
\* int32, bool, 8-bit float}.
C10_PassThroughAnyType ==
  (Returned /\ IsPointwiseCall /\ call.ins.name \in {"@param", "@literal", "@return"})
    => Result = TRUE

\* C10 as amended: the pointwise legality predicate accepts @param, @literal
\* and @return exactly for the result types float32, float16, int8, int32,
\* bool and 8-bit float (bool included), and rejects them for any other
\* result type.
C10_PassThroughAllowedTypes ==
  (Returned /\ IsPointwiseCall /\ call.ins.name \in {"@param", "@literal", "@return"})
    => (Result = TRUE <=>
          call.ins.type \in {"float_type", "half_type", "int8_type",
                             "int32_type", "bool_type", "fp8e4m3fnuz_type"})

C10_Witness ==
  /\ Returned /\ IsPointwiseCall
  /\ call.ins.name = "@param" /\ call.ins.type = "double_type"
  /\ Result = FALSE

\* the types and the lists as the table is described
WhitelistTypes ==
  {"float_type", "half_type", "int8_type", "int32_type", "bool_type", "fp8e4m3fnuz_type"}

FloatingTypes == {"float_type", "half_type", "fp8e4m3fnuz_type"}

NoBoolList ==
  {"add", "sub", "mul", "div", "pow", "clip", "relu", "abs", "neg", "where",
   "convolution", "quant_convolution", "dot", "quant_dot", "quantizelinear",
   "dequantizelinear"}

FloatingOnlyList ==
  {"ceil", "erf", "exp", "floor", "log", "recip", "sqrt", "rsqrt", "sigmoid",
   "softmax", "tanh"}

PassThroughList == {"@param", "@literal", "@return"}

\* C11: the pointwise legality predicate rejects every operation whose result
\* type is outside the whitelist; for a whitelisted type it accepts an
\* operation of the no-bool list iff the type is not bool, one of the
\* floating-only list iff the type is floating, and rejects every operation
\* that is in neither list and is neither a pass-through operation nor convert.
C11_PointwiseWhitelist ==
  (Returned /\ IsPointwiseCall) =>
    /\ call.ins.type \notin WhitelistTypes => Result = FALSE
    /\ (call.ins.type \in WhitelistTypes /\ call.ins.name \in NoBoolList) =>
         (Result = TRUE <=> call.ins.type # "bool_type")
    /\ (call.ins.type \in WhitelistTypes /\ call.ins.name \in FloatingOnlyList) =>
         (Result = TRUE <=> call.ins.type \in FloatingTypes)
    /\ call.ins.name \notin
         NoBoolList \cup FloatingOnlyList \cup PassThroughList \cup {"convert"} =>
           Result = FALSE

\* a floating-only operation of an integer result type has been rejected
C11_Witness ==
  /\ Returned /\ IsPointwiseCall
  /\ call.ins.name = "sqrt" /\ call.ins.type = "int32_type"
  /\ Result = FALSE

\* C12: the pointwise legality predicate accepts a convert only if its
\* result type and the type of every input are floating-point types, and
\* never when its result type is the 8-bit float type.
C12_ConvertFloatingOnly ==
  (Returned /\ IsPointwiseCall /\ call.ins.name = "convert" /\ Result = TRUE) =>
    /\ call.ins.type \in FloatingTypes
    /\ \A k \in 1..Len(call.ins.in_types) : call.ins.in_types[k] \in FloatingTypes
    /\ call.ins.type # "fp8e4m3fnuz_type"

\* a convert from float32 to the 8-bit float type has been rejected
C12_Witness ==
  /\ Returned /\ IsPointwiseCall
  /\ call.ins.name = "convert" /\ call.ins.type = "fp8e4m3fnuz_type"
  /\ call.ins.in_types = <<"float_type">>
  /\ Result = FALSE

IsReduceCall == call.fn = "is_reduce_op_supported_by_mlir"

\* C13: the reduction legality predicate accepts an operation iff its name
\* is reduce_mean or reduce_sum and its result type is float32, float16 or
\* the 8-bit float type.
C13_ReduceTable ==
  (Returned /\ IsReduceCall) =>
    (Result = TRUE <=>
       /\ call.ins.name \in {"reduce_mean", "reduce_sum"}
       /\ call.ins.type \in {"float_type", "half_type", "fp8e4m3fnuz_type"})

\* a reduce_sum of the 8-bit float type accepted
C13_Witness ==
  /\ Returned /\ IsReduceCall
  /\ call.ins.name = "reduce_sum" /\ call.ins.type = "fp8e4m3fnuz_type"
  /\ Result = TRUE

====
